---------------------------- MODULE Spec2Model ----------------------------
(***************************************************************************)
(* A model of the document question-answering service of this repository. *)
(*                                                                         *)
(*   - download_pdf_with_retry (src/app.py): the bounded retry loop of    *)
(*     the document fetcher.                                               *)
(*   - chunk_text_intelligently (src/app.py) and PDFProcessor.create_chunks *)
(*     (src/src/components/pdf_processor.py): the two chunkers.            *)
(*   - one request to POST /api/v1/webhook/test (src/app.py) or to POST    *)
(*     /api/v1/hackrx/run (src/src/api/endpoints.py with the components of *)
(*     src/src/components), from validation to the response.               *)
(*                                                                         *)
(* Strings are sequences of one-character strings.  HTTP responses are    *)
(* records of what the code reads of them: the exception requests.get or  *)
(* the body stream raised, the status code, and the size of the body.     *)
(***************************************************************************)
EXTENDS Integers, Sequences, FiniteSets, TLC

VARIABLES
    max_retries,    \* download_pdf_with_retry: its max_retries argument
    attempt,        \* download_pdf_with_retry: the loop variable
    dl_pc,          \* download_pdf_with_retry: "idle", "loop", "returned", "raised", "fell_through"
    dl_result,      \* the value returned: [size, attempt], or NoResult
    dl_log,         \* the responses the attempts received, in order
    sleeps,         \* the arguments of time.sleep, in order
    ct_pc,          \* chunk_text_intelligently: "idle", "called", "returned", "raised"
    ct_text,        \* its argument text
    ct_doc_type,    \* its argument doc_type
    ct_max,         \* its argument max_chunk_size
    ct_chunks,      \* its local `chunks`, the text as split
    ct_final,       \* its local `final_chunks`
    ct_out,         \* the list it returned
    ct_again,       \* the list a second call with the same arguments returned
    cc_pc,          \* create_chunks: "idle", "called", "returned"
    cc_pages,       \* its argument pages_content
    cc_size,        \* self.chunk_size
    cc_overlap,     \* self.chunk_overlap
    cc_out,         \* the list it returned
    cc_again,       \* the list a second call on the same processor and pages returned
    endpoint,       \* the route of the request: "webhook" or "hackrx"
    questions,      \* request.questions
    server,         \* what the server behind request.documents answers, attempt by attempt
    pdf,            \* what the PDF libraries read in the document behind the URL
    rq_pc,          \* the position of the request handler
    pdf_size,       \* len(pdf_content)
    document_text,  \* webhook_test: its local document_text
    rq_doc_type,       \* webhook_test: its local doc_type
    rq_pages_content,  \* process_document: its local pages_content
    rq_chunks,         \* process_document_and_questions: its local chunks
    embedded,       \* process_document_and_questions: its local chunks_with_embeddings
    vector_db,             \* the FAISSVectorDB of the global QueryRetrievalSystem
    answers,        \* the handler's local answers
    confidence_scores, \* webhook_test: its local confidence_scores
    q_log,          \* what happened to each question answered so far
    llm_calls,      \* the number of generate_content calls made
    response,       \* what the caller receives
    sv_env,         \* the deployment: settings.use_pinecone, PINECONE_AVAILABLE, the remote service
    sv_system,      \* the backend of the global query_system: "none" before it is built
    sv_faiss,       \* the FAISSVectorDB object: index, dimension, metadata
    sv_connected,   \* PineconeVectorDB.index is not None
    sv_remote,      \* the vectors the remote Pinecone index holds
    sv_req,         \* the requests to /hackrx/run: position, document, questions, outcome
    sv_running,     \* the request whose handler the event loop is running, or 0
    sv_trace,       \* the steps the handlers have taken, in order
    sv_last,        \* the outcome of the last call made on the FAISSVectorDB object
    fn_pc,          \* a function called on its own: "idle", "called", "returned", "raised"
    fn_args,        \* its arguments
    fn_out          \* what it returned

dlVars == <<max_retries, attempt, dl_pc, dl_result, dl_log, sleeps>>

ctVars == <<ct_pc, ct_text, ct_doc_type, ct_max, ct_chunks, ct_final, ct_out, ct_again>>

ccVars == <<cc_pc, cc_pages, cc_size, cc_overlap, cc_out, cc_again>>

rqVars ==
    <<endpoint, questions, server, pdf, rq_pc, pdf_size, document_text, rq_doc_type,
      rq_pages_content, rq_chunks, embedded, vector_db, answers, confidence_scores, q_log,
      llm_calls, response>>

svVars ==
    <<sv_env, sv_system, sv_faiss, sv_connected, sv_remote, sv_req, sv_running, sv_trace,
      sv_last>>

fnVars == <<fn_pc, fn_args, fn_out>>

vars == <<dlVars, ctVars, ccVars, rqVars, svVars, fnVars>>

-----------------------------------------------------------------------------
(* Arithmetic helpers. *)

Min(a, b) == IF a <= b THEN a ELSE b

Max(a, b) == IF a >= b THEN a ELSE b

RECURSIVE Pow(_, _)
Pow(b, e) == IF e <= 0 THEN 1 ELSE b * Pow(b, e - 1)

-----------------------------------------------------------------------------
(* Strings: a str is a sequence of one-character strings.                  *)

\* The characters str.isspace() and the regex class \s accept.
Whitespace == {" ", "\n", "\t", "\f"}

Digits == {"0", "1", "2", "3", "4", "5", "6", "7", "8", "9"}

UpperCase ==
    {"A", "B", "C", "D", "E", "F", "G", "H", "I", "J", "K", "L", "M",
     "N", "O", "P", "Q", "R", "S", "T", "U", "V", "W", "X", "Y", "Z"}

LowerCase ==
    {"a", "b", "c", "d", "e", "f", "g", "h", "i", "j", "k", "l", "m",
     "n", "o", "p", "q", "r", "s", "t", "u", "v", "w", "x", "y", "z"}

\* The regex class \w.
WordChars == LowerCase \cup UpperCase \cup Digits \cup {"_"}

\* str.lower() of one character.
LowerChar(c) ==
    CASE c = "A" -> "a" [] c = "B" -> "b" [] c = "C" -> "c" [] c = "D" -> "d"
      [] c = "E" -> "e" [] c = "F" -> "f" [] c = "G" -> "g" [] c = "H" -> "h"
      [] c = "I" -> "i" [] c = "J" -> "j" [] c = "K" -> "k" [] c = "L" -> "l"
      [] c = "M" -> "m" [] c = "N" -> "n" [] c = "O" -> "o" [] c = "P" -> "p"
      [] c = "Q" -> "q" [] c = "R" -> "r" [] c = "S" -> "s" [] c = "T" -> "t"
      [] c = "U" -> "u" [] c = "V" -> "v" [] c = "W" -> "w" [] c = "X" -> "x"
      [] c = "Y" -> "y" [] c = "Z" -> "z" [] OTHER -> c

\* str.lower()
Lower(s) == [i \in 1..Len(s) |-> LowerChar(s[i])]

\* c * n
Rep(c, n) == [i \in 1..n |-> c]

\* s[a:b] for 0 <= a, with Python's clipping of b to len(s).
Slice(s, a, b) == SubSeq(s, a + 1, Min(b, Len(s)))

\* s[:n] for n >= 0
Take(s, n) == Slice(s, 0, n)

\* s.startswith(p)
StartsWith(s, p) == Len(p) <= Len(s) /\ SubSeq(s, 1, Len(p)) = p

\* The 1-based position at which p occurs in s.
OccursAt(s, p, i) == i >= 1 /\ i + Len(p) - 1 <= Len(s) /\ SubSeq(s, i, i + Len(p) - 1) = p

\* p in s
Contains(s, p) == \E i \in 1..(Len(s) - Len(p) + 1) : OccursAt(s, p, i)

\* The first position >= i of s whose character is not in cs; Len(s) + 1 if none.
SkipRun(s, i, cs) ==
    LET stops == {k \in i..Len(s) : s[k] \notin cs}
    IN  IF stops = {} THEN Len(s) + 1 ELSE CHOOSE k \in stops : \A m \in stops : k <= m

\* s.strip()
Strip(s) ==
    LET keep == SelectSeq([k \in 1..Len(s) |-> k], LAMBDA k : s[k] \notin Whitespace)
    IN  IF keep = <<>> THEN <<>> ELSE SubSeq(s, keep[1], keep[Len(keep)])

\* The concatenation of a sequence of strings.
RECURSIVE Concat(_)
Concat(ss) == IF ss = <<>> THEN <<>> ELSE Head(ss) \o Concat(Tail(ss))

-----------------------------------------------------------------------------
(* chunk_text_intelligently, src/app.py:293-319. *)

\* def chunk_text_intelligently(text, doc_type, max_chunk_size: int = 4000)
DefaultMaxChunkSize == 4000

\* return [chunk for chunk in final_chunks if len(chunk.strip()) > 50]
MinChunkLen == 50

\* The alternatives of the three split patterns, (?i)(w1|w2|w3)\s+\d+.
LegalSplitWords == <<<<"a", "r", "t", "i", "c", "l", "e">>, <<"s", "e", "c", "t", "i", "o", "n">>>>

InsuranceSplitWords == <<<<"s", "e", "c", "t", "i", "o", "n">>, <<"c", "l", "a", "u", "s", "e">>, <<"p", "a", "r", "t">>>>

ScientificSplitWords == <<<<"c", "h", "a", "p", "t", "e", "r">>, <<"b", "o", "o", "k">>, <<"p", "r", "o", "p", "o", "s", "i", "t", "i", "o", "n">>>>

\* The alternatives among words that occur at position i, in any case.
WordsAt(text, i, words) ==
    { k \in 1..Len(words) :
        /\ i + Len(words[k]) - 1 <= Len(text)
        /\ Lower(SubSeq(text, i, i + Len(words[k]) - 1)) = words[k] }

\* The alternatives of (?i)(w1|..)\s+\d+ that match at position i, each with
\* the position after its match: the word in any case, one or more
\* whitespace characters, one or more digits (both runs greedy).
PatternMatches(text, i, words) ==
    { m \in { [word |-> k,
               stop |-> SkipRun(text, SkipRun(text, i + Len(words[k]), Whitespace), Digits)]
              : k \in WordsAt(text, i, words) } :
        /\ SkipRun(text, i + Len(words[m.word]), Whitespace) > i + Len(words[m.word])
        /\ m.stop > SkipRun(text, i + Len(words[m.word]), Whitespace) }

\* re.split(pattern, text) for a pattern with one group: the text before each
\* match, then the group's text, ..., and the text after the last match.
\* `from` is the position of the first character not yet consumed.
RECURSIVE RegexSplit(_, _, _)
RegexSplit(text, from, words) ==
    LET starts == {i \in from..Len(text) : PatternMatches(text, i, words) # {}}
    IN  IF starts = {}
        THEN <<SubSeq(text, from, Len(text))>>
        ELSE LET i == CHOOSE k \in starts : \A j \in starts : k <= j
                 ms == PatternMatches(text, i, words)
                 m == CHOOSE x \in ms : \A y \in ms : x.word <= y.word
             IN  <<SubSeq(text, from, i - 1),
                   SubSeq(text, i, i + Len(words[m.word]) - 1)>>
                 \o RegexSplit(text, m.stop, words)

\* text.split(sep)
RECURSIVE SplitOn(_, _, _)
SplitOn(text, from, sep) ==
    LET starts == {i \in from..Len(text) : OccursAt(text, sep, i)}
    IN  IF starts = {}
        THEN <<SubSeq(text, from, Len(text))>>
        ELSE LET i == CHOOSE k \in starts : \A j \in starts : k <= j
             IN  <<SubSeq(text, from, i - 1)>> \o SplitOn(text, i + Len(sep), sep)

\* The if/elif chain on doc_type: `chunks`.
SplitByDocType(text, doc_type) ==
    CASE doc_type = "legal" -> RegexSplit(text, 1, LegalSplitWords)
      [] doc_type = "insurance" -> RegexSplit(text, 1, InsuranceSplitWords)
      [] doc_type = "scientific" -> RegexSplit(text, 1, ScientificSplitWords)
      [] OTHER -> SplitOn(text, 1, <<"\n", "\n">>)

\* HardSplit with slices one character too long: chunk[i:i+max_chunk_size+1].
HardSplitLongSlices(chunk, max_chunk_size) ==
    IF max_chunk_size < 0 THEN <<>>
    ELSE [k \in 1..((Len(chunk) + max_chunk_size - 1) \div max_chunk_size) |->
            Slice(chunk, (k - 1) * max_chunk_size, k * max_chunk_size + 1)]

\* HardSplit that stops before a last, shorter slice:
\* range(0, len(chunk) - max_chunk_size + 1, max_chunk_size).
HardSplitDropsTail(chunk, max_chunk_size) ==
    IF max_chunk_size < 0 THEN <<>>
    ELSE [k \in 1..(Len(chunk) \div max_chunk_size) |->
            Slice(chunk, (k - 1) * max_chunk_size, k * max_chunk_size)]

\* [chunk[i:i+max_chunk_size] for i in range(0, len(chunk), max_chunk_size)]
\* for a step > 0; a negative step gives an empty range.
HardSplit(chunk, max_chunk_size) ==
    IF max_chunk_size < 0 THEN <<>>
    ELSE [k \in 1..((Len(chunk) + max_chunk_size - 1) \div max_chunk_size) |->
            Slice(chunk, (k - 1) * max_chunk_size, k * max_chunk_size)]

\* The loop over chunks: `final_chunks`.
RECURSIVE EnsureMaxSize(_, _)
EnsureMaxSize(chunks, max_chunk_size) ==
    IF chunks = <<>> THEN <<>>
    ELSE (IF Len(Head(chunks)) <= max_chunk_size
          THEN <<Strip(Head(chunks))>>
          ELSE HardSplit(Head(chunks), max_chunk_size))
         \o EnsureMaxSize(Tail(chunks), max_chunk_size)

\* len(chunk.strip()) > 50
IsMeaningful(chunk) == Len(Strip(chunk)) > MinChunkLen

\* The returned list.
DropShortChunks(final_chunks) == SelectSeq(final_chunks, IsMeaningful)

\* range(0, len(chunk), 0) raises ValueError.
ChunkTextRaises(text, doc_type, max_chunk_size) ==
    /\ max_chunk_size = 0
    /\ \E i \in DOMAIN SplitByDocType(text, doc_type) :
          Len(SplitByDocType(text, doc_type)[i]) > max_chunk_size

chunk_text_intelligently(text, doc_type, max_chunk_size) ==
    DropShortChunks(EnsureMaxSize(SplitByDocType(text, doc_type), max_chunk_size))

-----------------------------------------------------------------------------
(* PDFProcessor.create_chunks and _get_overlap_text,                       *)
(* src/src/components/pdf_processor.py:76-150.                             *)

\* text.rfind(c): the 0-based index of the last c in text, or -1.
RFind(text, c) ==
    LET at == {k \in 1..Len(text) : text[k] = c}
    IN  IF at = {} THEN -1 ELSE (CHOOSE k \in at : \A m \in at : k >= m) - 1

\* text[-n:] for n >= 0; text[-0:] is the whole text.
LastChars(text, n) ==
    IF n = 0 \/ n >= Len(text) THEN text ELSE SubSeq(text, Len(text) - n + 1, Len(text))

\* _get_overlap_text(text, overlap_size)
GetOverlapText(text, overlap_size) ==
    IF Len(text) <= overlap_size THEN text
    ELSE LET overlap_text == LastChars(text, overlap_size)
             sentence_end == Max(Max(RFind(overlap_text, "."), RFind(overlap_text, "!")),
                                 RFind(overlap_text, "?"))
         IN  IF sentence_end > overlap_size \div 2
             THEN Strip(SubSeq(overlap_text, sentence_end + 2, Len(overlap_text)))
             ELSE overlap_text

\* The dict appended to chunks; chunk_id n stands for the string "chunk_n".
ChunkRecord(chunk_id, current_chunk, page_num, current_chunk_start) ==
    [chunk_id |-> chunk_id,
     content |-> Strip(current_chunk),
     page_number |-> page_num,
     char_start |-> current_chunk_start,
     char_end |-> current_chunk_start + Len(current_chunk)]

\* One iteration of `for para in paragraphs`, on the loop's state
\* st = [chunks, chunk_id, current_chunk, current_chunk_start].
ParagraphStep(st, raw_para, page_num, chunk_size, chunk_overlap) ==
    LET para == Strip(raw_para)
    IN  IF para = <<>> THEN st
        ELSE IF Len(st.current_chunk) + Len(para) > chunk_size /\ st.current_chunk # <<>>
        THEN LET overlap_text == GetOverlapText(st.current_chunk, chunk_overlap)
                 new_chunk == IF overlap_text # <<>>
                              THEN overlap_text \o <<"\n", "\n">> \o para
                              ELSE para
             IN  [chunks |-> Append(st.chunks,
                                    ChunkRecord(st.chunk_id, st.current_chunk, page_num,
                                                st.current_chunk_start)),
                  chunk_id |-> st.chunk_id + 1,
                  current_chunk |-> new_chunk,
                  current_chunk_start |->
                      IF overlap_text # <<>>
                      THEN st.current_chunk_start + Len(new_chunk) - Len(overlap_text)
                      ELSE st.current_chunk_start + Len(new_chunk)]
        ELSE [st EXCEPT !.current_chunk =
                  IF st.current_chunk # <<>>
                  THEN st.current_chunk \o <<"\n", "\n">> \o para
                  ELSE para]

\* The loop over the paragraphs of one page.
RECURSIVE ParagraphLoop(_, _, _, _, _)
ParagraphLoop(st, paragraphs, page_num, chunk_size, chunk_overlap) ==
    IF paragraphs = <<>> THEN st
    ELSE ParagraphLoop(ParagraphStep(st, Head(paragraphs), page_num, chunk_size, chunk_overlap),
                       Tail(paragraphs), page_num, chunk_size, chunk_overlap)

\* The body of `for page_data in pages_content`, on acc = [chunks, chunk_id].
PageStep(acc, page_data, chunk_size, chunk_overlap) ==
    LET st == ParagraphLoop([chunks |-> acc.chunks, chunk_id |-> acc.chunk_id,
                             current_chunk |-> <<>>, current_chunk_start |-> 0],
                            SplitOn(page_data.content, 1, <<"\n", "\n">>),
                            page_data.page_number, chunk_size, chunk_overlap)
    IN  IF Strip(st.current_chunk) # <<>>
        THEN [chunks |-> Append(st.chunks,
                                ChunkRecord(st.chunk_id, st.current_chunk,
                                            page_data.page_number, st.current_chunk_start)),
              chunk_id |-> st.chunk_id + 1]
        ELSE [chunks |-> st.chunks, chunk_id |-> st.chunk_id]

RECURSIVE PageLoop(_, _, _, _)
PageLoop(acc, pages_content, chunk_size, chunk_overlap) ==
    IF pages_content = <<>> THEN acc
    ELSE PageLoop(PageStep(acc, Head(pages_content), chunk_size, chunk_overlap),
                  Tail(pages_content), chunk_size, chunk_overlap)

\* create_chunks with current_chunk set up once, before the loop over the
\* pages: the buffer of a page goes on into the next page.
RECURSIVE ParagraphsOfPages(_)
ParagraphsOfPages(pages_content) ==
    IF pages_content = <<>> THEN <<>>
    ELSE SplitOn(Head(pages_content).content, 1, <<"\n", "\n">>)
             \o ParagraphsOfPages(Tail(pages_content))

CreateChunksCarryingBuffer(pages_content, chunk_size, chunk_overlap) ==
    LET page_num == pages_content[Len(pages_content)].page_number
        st == ParagraphLoop([chunks |-> <<>>, chunk_id |-> 0,
                             current_chunk |-> <<>>, current_chunk_start |-> 0],
                            ParagraphsOfPages(pages_content), page_num, chunk_size,
                            chunk_overlap)
    IN  IF Strip(st.current_chunk) # <<>>
        THEN Append(st.chunks, ChunkRecord(st.chunk_id, st.current_chunk, page_num,
                                           st.current_chunk_start))
        ELSE st.chunks

\* create_chunks(pages_content), for a PDFProcessor(chunk_size, chunk_overlap).
create_chunks(pages_content, chunk_size, chunk_overlap) ==
    PageLoop([chunks |-> <<>>, chunk_id |-> 0], pages_content, chunk_size, chunk_overlap).chunks

-----------------------------------------------------------------------------
(* The text functions of src/app.py: clean_text, detect_document_type,     *)
(* find_relevant_chunks, calculate_confidence_score.                       *)

\* str(n) for n >= 0
RECURSIVE ToStr(_)
ToStr(n) ==
    LET digit == CASE n % 10 = 0 -> "0" [] n % 10 = 1 -> "1" [] n % 10 = 2 -> "2"
                   [] n % 10 = 3 -> "3" [] n % 10 = 4 -> "4" [] n % 10 = 5 -> "5"
                   [] n % 10 = 6 -> "6" [] n % 10 = 7 -> "7" [] n % 10 = 8 -> "8"
                   [] OTHER -> "9"
    IN  IF n < 10 THEN <<digit>> ELSE ToStr(n \div 10) \o <<digit>>

\* sep.join(parts)
RECURSIVE Join(_, _)
Join(sep, parts) ==
    IF Len(parts) = 0 THEN <<>>
    ELSE IF Len(parts) = 1 THEN parts[1]
    ELSE parts[1] \o sep \o Join(sep, Tail(parts))

\* set(re.findall(r'\b\w+\b', s)): the maximal runs of word characters.
WordSet(s) ==
    { SubSeq(s, a, SkipRun(s, a, WordChars) - 1) :
        a \in {k \in 1..Len(s) : s[k] \in WordChars /\ (k = 1 \/ s[k - 1] \notin WordChars)} }

\* re.sub(r'\s+', ' ', text): every run of whitespace becomes one space.
\* (After it the two further substitutions of clean_text, on '\n\d+\n' and
\* on '\f', find nothing to replace, and the ligature replacements map a
\* string to itself.)
clean_text(text) ==
    LET keep == SelectSeq([k \in 1..Len(text) |-> k],
                          LAMBDA k : text[k] \notin Whitespace \/ k = 1
                                     \/ text[k - 1] \notin Whitespace)
    IN  [n \in 1..Len(keep) |->
            IF text[keep[n]] \in Whitespace THEN " " ELSE text[keep[n]]]

insurance_keywords ==
    <<<<"p", "o", "l", "i", "c", "y">>,
      <<"p", "r", "e", "m", "i", "u", "m">>,
      <<"i", "n", "s", "u", "r", "e", "d">>,
      <<"c", "o", "v", "e", "r", "a", "g", "e">>,
      <<"b", "e", "n", "e", "f", "i", "c", "i", "a", "r", "y">>,
      <<"c", "l", "a", "i", "m">>>>

legal_keywords ==
    <<<<"c", "o", "n", "s", "t", "i", "t", "u", "t", "i", "o", "n">>,
      <<"a", "r", "t", "i", "c", "l", "e">>,
      <<"s", "e", "c", "t", "i", "o", "n">>,
      <<"l", "a", "w">>,
      <<"c", "o", "u", "r", "t">>,
      <<"l", "e", "g", "a", "l">>>>

science_keywords ==
    <<<<"t", "h", "e", "o", "r", "e", "m">>,
      <<"p", "r", "i", "n", "c", "i", "p", "l", "e">>,
      <<"m", "a", "t", "h", "e", "m", "a", "t", "i", "c", "a", "l">>,
      <<"p", "h", "y", "s", "i", "c", "s">>,
      <<"e", "q", "u", "a", "t", "i", "o", "n">>,
      <<"l", "a", "w", " ", "o", "f">>>>

\* sum(1 for keyword in keywords if keyword in text_lower)
KeywordScore(text_lower, keywords) ==
    Cardinality({k \in DOMAIN keywords : Contains(text_lower, keywords[k])})

\* detect_document_type(text): max(scores, key=scores.get) returns the first
\* key, in the dict's order, that has the largest score.
detect_document_type(text) ==
    LET text_lower == Lower(text)
        insurance_score == KeywordScore(text_lower, insurance_keywords)
        legal_score == KeywordScore(text_lower, legal_keywords)
        science_score == KeywordScore(text_lower, science_keywords)
    IN  IF insurance_score >= legal_score /\ insurance_score >= science_score
        THEN "insurance"
        ELSE IF legal_score >= science_score THEN "legal" ELSE "scientific"

\* The score find_relevant_chunks gives a chunk: the number of question words
\* among the chunk's words, plus one for each question word of more than 3
\* characters that occurs in the lower-cased chunk.
ChunkScore(chunk, question) ==
    LET question_words == WordSet(Lower(question))
        chunk_lower == Lower(chunk)
    IN  Cardinality(question_words \cap WordSet(chunk_lower))
        + Cardinality({w \in question_words : Len(w) > 3 /\ Contains(chunk_lower, w)})

\* chunk_scores.sort(...) with the chunks of equal score in reverse order.
RankOfTiesReversed(chunks, question, i) ==
    1 + Cardinality({j \in DOMAIN chunks :
            \/ ChunkScore(chunks[j], question) > ChunkScore(chunks[i], question)
            \/ (ChunkScore(chunks[j], question) = ChunkScore(chunks[i], question) /\ j > i)})

\* chunk_scores.sort(reverse=True, key=lambda x: x[0]): a stable sort, so
\* chunks of equal score keep their order.  The position of chunk i after it.
RankOf(chunks, question, i) ==
    1 + Cardinality({j \in DOMAIN chunks :
            \/ ChunkScore(chunks[j], question) > ChunkScore(chunks[i], question)
            \/ (ChunkScore(chunks[j], question) = ChunkScore(chunks[i], question) /\ j < i)})

\* len(l[:n]): a negative n counts from the end of the list.
SliceCount(len, n) == IF n >= 0 THEN Min(n, len) ELSE Max(len + n, 0)

\* find_relevant_chunks(chunks, question, max_chunks)
find_relevant_chunks(chunks, question, max_chunks) ==
    [r \in 1..SliceCount(Len(chunks), max_chunks) |->
        chunks[CHOOSE i \in DOMAIN chunks : RankOf(chunks, question, i) = r]]

\* def find_relevant_chunks(chunks, question, max_chunks: int = 5)
DefaultMaxChunks == 5

\* relevant_chunks[:3]
ContextChunks == 3

specific_indicators ==
    <<<<"RUPEE">>, <<"%">>,
      <<"s", "e", "c", "t", "i", "o", "n">>,
      <<"a", "r", "t", "i", "c", "l", "e">>,
      <<"c", "l", "a", "u", "s", "e">>,
      <<"s", "p", "e", "c", "i", "f", "i", "c", "a", "l", "l", "y">>,
      <<"m", "e", "n", "t", "i", "o", "n", "e", "d">>>>

context_phrases ==
    <<<<"a", "c", "c", "o", "r", "d", "i", "n", "g", " ", "t", "o">>,
      <<"d", "o", "c", "u", "m", "e", "n", "t", " ", "s", "t", "a", "t", "e", "s">>,
      <<"m", "e", "n", "t", "i", "o", "n", "e", "d">>,
      <<"s", "p", "e", "c", "i", "f", "i", "e", "d">>>>

\* if not answer or len(answer) < 20: return 0.0
MinScoredAnswerLen == 20

\* if len(answer) > 50: confidence += 0.2
LongAnswerLen == 50

\* overlap / len(question_words) raises ZeroDivisionError for a question
\* without any word character, once the answer has 20 characters or more.
ConfidenceRaises(answer, question) ==
    /\ Len(answer) >= MinScoredAnswerLen
    /\ WordSet(Lower(question)) = {}

\* calculate_confidence_score(answer, question, context), as the exact
\* fraction num / den of the sum of its four factors, capped at 1.
calculate_confidence_score(answer, question, context) ==
    IF Len(answer) < MinScoredAnswerLen THEN [num |-> 0, den |-> 1]
    ELSE LET n == Cardinality(WordSet(Lower(question)))
             answer_lower == Lower(answer)
             length_pct == IF Len(answer) > LongAnswerLen THEN 20 ELSE 0
             specific_count ==
                 Cardinality({k \in DOMAIN specific_indicators :
                                Contains(answer_lower, Lower(specific_indicators[k]))})
             specific_pct == Min(20 * specific_count, 30)
             overlap == Cardinality(WordSet(Lower(question)) \cap WordSet(answer_lower))
             context_pct ==
                 IF context # <<>> /\ \E k \in DOMAIN context_phrases :
                                         Contains(answer_lower, context_phrases[k])
                 THEN 20 ELSE 0
             num == n * (length_pct + specific_pct + context_pct) + Min(100 * overlap, 30 * n)
         IN  [num |-> Min(num, 100 * n), den |-> 100 * n]

-----------------------------------------------------------------------------
(* PDFProcessor._clean_text, src/src/components/pdf_processor.py:58-74.    *)

\* The last newline of the whitespace run that follows position i, or 0.
LastNewlineAfter(text, i) ==
    LET nls == {k \in (i + 1)..(SkipRun(text, i + 1, Whitespace) - 1) : text[k] = "\n"}
    IN  IF nls = {} THEN 0 ELSE CHOOSE k \in nls : \A m \in nls : k >= m

\* re.sub(r'\n\s*\n', '\n\n', text)
RECURSIVE BlankLinesToBreak(_, _)
BlankLinesToBreak(text, from) ==
    LET starts == {i \in from..Len(text) : text[i] = "\n" /\ LastNewlineAfter(text, i) > 0}
    IN  IF starts = {} THEN SubSeq(text, from, Len(text))
        ELSE LET i == CHOOSE k \in starts : \A j \in starts : k <= j
             IN  SubSeq(text, from, i - 1) \o <<"\n", "\n">>
                 \o BlankLinesToBreak(text, LastNewlineAfter(text, i) + 1)

\* re.sub(r' +', ' ', text)
CollapseSpaces(text) ==
    LET keep == SelectSeq([k \in 1..Len(text) |-> k],
                          LAMBDA k : text[k] # " " \/ k = 1 \/ text[k - 1] # " ")
    IN  [n \in 1..Len(keep) |-> text[keep[n]]]

\* [line.strip() for line in lines if line.strip() and len(line.strip()) > 3]
RECURSIVE KeepLongLines(_)
KeepLongLines(lines) ==
    IF lines = <<>> THEN <<>>
    ELSE (IF Len(Strip(Head(lines))) > 3 THEN <<Strip(Head(lines))>> ELSE <<>>)
         \o KeepLongLines(Tail(lines))

\* _clean_text(text)
CleanPageText(text) ==
    Join(<<"\n">>,
         KeepLongLines(SplitOn(CollapseSpaces(BlankLinesToBreak(text, 1)), 1, <<"\n">>)))

\* The loop of extract_text_from_pdf over the pages of the document: the
\* pages whose cleaned text is not blank, numbered from 1 by position.
RECURSIVE ExtractPages(_, _)
ExtractPages(raw_pages, page_num) ==
    IF raw_pages = <<>> THEN <<>>
    ELSE (IF Strip(CleanPageText(Head(raw_pages))) # <<>>
          THEN <<[page_number |-> page_num + 1, content |-> CleanPageText(Head(raw_pages))]>>
          ELSE <<>>)
         \o ExtractPages(Tail(raw_pages), page_num + 1)

-----------------------------------------------------------------------------
(* LLMQueryProcessor, src/src/components/llm_query_processor.py.           *)

medical_terms ==
    <<<<"s", "u", "r", "g", "e", "r", "y">>,
      <<"t", "r", "e", "a", "t", "m", "e", "n", "t">>,
      <<"p", "r", "o", "c", "e", "d", "u", "r", "e">>,
      <<"c", "o", "n", "d", "i", "t", "i", "o", "n">>,
      <<"d", "i", "s", "e", "a", "s", "e">>,
      <<"i", "l", "l", "n", "e", "s", "s">>,
      <<"h", "o", "s", "p", "i", "t", "a", "l", "i", "z", "a", "t", "i", "o", "n">>,
      <<"m", "e", "d", "i", "c", "a", "t", "i", "o", "n">>,
      <<"t", "h", "e", "r", "a", "p", "y">>,
      <<"d", "i", "a", "g", "n", "o", "s", "i", "s">>,
      <<"c", "o", "n", "s", "u", "l", "t", "a", "t", "i", "o", "n">>>>

insurance_terms ==
    <<<<"c", "o", "v", "e", "r", "a", "g", "e">>,
      <<"b", "e", "n", "e", "f", "i", "t">>,
      <<"p", "r", "e", "m", "i", "u", "m">>,
      <<"d", "e", "d", "u", "c", "t", "i", "b", "l", "e">>,
      <<"c", "o", "p", "a", "y">>,
      <<"c", "l", "a", "i", "m">>,
      <<"p", "o", "l", "i", "c", "y">>,
      <<"w", "a", "i", "t", "i", "n", "g", " ", "p", "e", "r", "i", "o", "d">>,
      <<"g", "r", "a", "c", "e", " ", "p", "e", "r", "i", "o", "d">>,
      <<"e", "x", "c", "l", "u", "s", "i", "o", "n">>,
      <<"l", "i", "m", "i", "t">>>>

\* query.split(): the maximal runs of characters that are not whitespace.
SplitWords(s) ==
    LET starts == SelectSeq([k \in 1..Len(s) |-> k],
                            LAMBDA k : s[k] \notin Whitespace
                                       /\ (k = 1 \/ s[k - 1] \in Whitespace))
        stop(a) == LET ws == {k \in a..Len(s) : s[k] \in Whitespace}
                   IN  IF ws = {} THEN Len(s) ELSE (CHOOSE k \in ws : \A m \in ws : k <= m) - 1
    IN  [n \in 1..Len(starts) |-> SubSeq(s, starts[n], stop(starts[n]))]

\* _extract_entities_fallback(query): the set the returned list is made of.
ExtractEntitiesFallback(query) ==
    LET query_lower == Lower(query)
        terms == medical_terms \o insurance_terms
        words == SplitWords(query)
    IN  {terms[k] : k \in {j \in DOMAIN terms : Contains(query_lower, terms[j])}}
        \cup {Lower(words[k]) : k \in {j \in DOMAIN words :
                                         words[j][1] \in UpperCase /\ Len(words[j]) > 3}}

\* The orders list(set(entities)) can come out in.
Orderings(set) ==
    {f \in [1..Cardinality(set) -> set] : \A a, b \in 1..Cardinality(set) : a # b => f[a] # f[b]}

\* The dict parse_query returns when the LLM call or its JSON fails.
FallbackParse(query, entities) ==
    [intent |-> "other", key_entities |-> entities, entities_ok |-> TRUE,
     keywords |-> SplitWords(Lower(query)), refined_query |-> query, fallback |-> TRUE]

\* enhance_query_for_search(original_query, parsed_query); a key_entities
\* value that cannot extend a list makes the method return original_query.
EnhanceQueryForSearch(original_query, parsed_query) ==
    IF ~parsed_query.entities_ok THEN original_query
    ELSE Join(<<" ">>,
              <<original_query>> \o parsed_query.key_entities
              \o (IF parsed_query.refined_query # <<>>
                     /\ parsed_query.refined_query # original_query
                  THEN <<parsed_query.refined_query>> ELSE <<>>))

\* return f"... {content[:300]}..."
FallbackContentLen == 300

NoInformationAnswer ==
    <<"The provided document does not contain information relevant to your query.">>

\* A fallback that quotes the whole content of the first chunk.
FallbackWithWholeContent(retrieved_chunks) ==
    IF retrieved_chunks = <<>> THEN NoInformationAnswer
    ELSE <<"Based on the document content <Page ">>
         \o ToStr(retrieved_chunks[1].page_number)
         \o <<">, the relevant information found is: ">>
         \o retrieved_chunks[1].content
         \o <<".", ".", ".">>

\* _generate_fallback_answer(query, retrieved_chunks)
GenerateFallbackAnswer(retrieved_chunks) ==
    IF retrieved_chunks = <<>> THEN NoInformationAnswer
    ELSE <<"Based on the document content <Page ">>
         \o ToStr(retrieved_chunks[1].page_number)
         \o <<">, the relevant information found is: ">>
         \o Take(retrieved_chunks[1].content, FallbackContentLen)
         \o <<".", ".", ".">>

-----------------------------------------------------------------------------
(* EmbeddingGenerator and FAISSVectorDB,                                   *)
(* src/src/components/embedding_generator.py and vector_db_manager.py.     *)

\* The dimension of the embedding model explored.
EmbeddingDim == 2

\* self.model.encode: a fixed function of the text, with small integer
\* coordinates, the zero vector included.
Embed(text) == [d \in 1..EmbeddingDim |-> ((Len(text) \div d) % 3) - 1]

Dot(a, b) ==
    LET RECURSIVE Sum(_)
        Sum(d) == IF d = 0 THEN 0 ELSE a[d] * b[d] + Sum(d - 1)
    IN  Sum(Len(a))

\* _normalize_vectors: the squared norm a vector is divided by; a zero norm
\* is replaced by 1.
SafeNormSq(v) == IF Dot(v, v) = 0 THEN 1 ELSE Dot(v, v)

\* The inner product of the normalized query and the normalized v is larger
\* than that of the normalized query and the normalized w.
ScoreGreater(q, v, w) ==
    LET dv == Dot(q, v)
        dw == Dot(q, w)
    IN  IF dv >= 0 /\ dw < 0 THEN TRUE
        ELSE IF dv < 0 /\ dw >= 0 THEN FALSE
        ELSE IF dv >= 0 THEN dv * dv * SafeNormSq(w) > dw * dw * SafeNormSq(v)
        ELSE dv * dv * SafeNormSq(w) < dw * dw * SafeNormSq(v)

\* The orders in which index.search can return the k best of the stored
\* vectors `remaining`: best score first, vectors of equal score in any order.
RECURSIVE BestFirst(_, _, _, _)
BestFirst(vectors, query_vector, remaining, k) ==
    IF k = 0 \/ remaining = {} THEN {<<>>}
    ELSE LET tops == {i \in remaining : \A j \in remaining :
                         ~ScoreGreater(query_vector, vectors[j], vectors[i])}
         IN  UNION { { <<i>> \o rest :
                         rest \in BestFirst(vectors, query_vector, remaining \ {i}, k - 1) } :
                     i \in tops }

\* FAISSVectorDB.search: the lists of metadata the search can return.
FaissSearch(db, query_vector, top_k) ==
    IF ~db.initialized \/ Len(db.vectors) = 0 THEN {<<>>}
    ELSE LET picks == BestFirst(db.vectors, query_vector, DOMAIN db.vectors,
                                Min(top_k, Len(db.vectors)))
             valid(r) == SelectSeq(r, LAMBDA idx : idx - 1 < Len(db.metadata))
         IN  { [a \in 1..Len(valid(r)) |-> db.metadata[valid(r)[a]]] : r \in picks }

\* FAISSVectorDB() before and after initialize(dimension).
EmptyDb == [initialized |-> FALSE, dimension |-> 0, vectors |-> <<>>, metadata |-> <<>>]

FaissInitialize(db, dimension) ==
    [initialized |-> TRUE, dimension |-> dimension, vectors |-> <<>>, metadata |-> <<>>]

\* VectorDBManager.add_chunks on FAISS: the vectors and, without the
\* embedding, the metadata.
FaissAddChunks(db, chunks_with_embeddings) ==
    [db EXCEPT
        !.vectors = db.vectors \o [i \in DOMAIN chunks_with_embeddings |->
                                      chunks_with_embeddings[i].embedding],
        !.metadata = db.metadata \o [i \in DOMAIN chunks_with_embeddings |->
                                      chunks_with_embeddings[i].chunk]]

\* FAISSVectorDB.clear
FaissClear(db) ==
    IF db.dimension # 0 THEN FaissInitialize(db, db.dimension)
    ELSE [db EXCEPT !.initialized = FALSE, !.vectors = <<>>, !.metadata = <<>>]

-----------------------------------------------------------------------------
(* download_pdf_with_retry, src/app.py:79-134. *)

\* The largest max_retries the fetcher is explored with.
MaxRetriesBound == 3

\* def download_pdf_with_retry(url, max_retries: int = 3)
DefaultMaxRetries == 3

\* max_size = 200 * 1024 * 1024
max_size == 209715200

\* response.iter_content(chunk_size=16384)
iter_chunk_size == 16384

\* if len(content) < 1000: raise ValueError(...)
MinPdfSize == 1000

\* wait_time = 3 ** attempt
BackoffBase == 3

NoResult == [size |-> -1, attempt |-> -1]

\* What one attempt can meet: requests.get raising Timeout or another
\* RequestException (also from the body stream), or a response with a status
\* code and a body of some size.
Responses ==
    { [exc |-> "timeout", status |-> 0, body |-> 0],
      [exc |-> "request", status |-> 0, body |-> 0],
      [exc |-> "none", status |-> 500, body |-> 5000],
      [exc |-> "none", status |-> 404, body |-> 200],
      [exc |-> "none", status |-> 200, body |-> 999],
      [exc |-> "none", status |-> 200, body |-> 1000],
      [exc |-> "none", status |-> 200, body |-> max_size + 2 * iter_chunk_size + 5],
      [exc |-> "none", status |-> 300, body |-> 2000] }

\* response.raise_for_status(): raises HTTPError for a 4xx or 5xx status.
RaiseForStatus(r) == r.status >= 400 /\ r.status < 600

\* The body-reading loop: chunks of iter_chunk_size bytes are appended, and the
\* loop is left once downloaded_size > max_size.  len(content) afterwards.
Received(body) ==
    IF body <= max_size
    THEN body
    ELSE Min(body, ((max_size \div iter_chunk_size) + 1) * iter_chunk_size)

\* The attempt reaches `return content`.
AttemptSucceeds(r) ==
    /\ r.exc = "none"
    /\ ~RaiseForStatus(r)
    /\ Received(r.body) >= MinPdfSize

\* The call: the loop variable starts at 0.
DownloadCall(m) ==
    /\ dl_pc = "idle"
    /\ max_retries' = m
    /\ attempt' = 0
    /\ dl_pc' = "loop"
    /\ dl_result' = NoResult
    /\ dl_log' = <<>>
    /\ sleeps' = <<>>

\* One iteration whose try block returns the content.
DownloadAttemptReturns ==
    /\ dl_pc = "loop"
    /\ attempt < max_retries
    /\ \E r \in Responses :
        /\ AttemptSucceeds(r)
        /\ dl_log' = Append(dl_log, r)
        /\ dl_result' = [size |-> Received(r.body), attempt |-> attempt]
    /\ dl_pc' = "returned"
    /\ UNCHANGED <<max_retries, attempt, sleeps>>

\* The retry with wait_time = 3 * attempt in place of 3 ** attempt.
DownloadAttemptRetriesLinearWait ==
    /\ dl_pc = "loop"
    /\ attempt < max_retries
    /\ attempt < max_retries - 1
    /\ \E r \in Responses :
        /\ ~AttemptSucceeds(r)
        /\ dl_log' = Append(dl_log, r)
    /\ sleeps' = Append(sleeps, BackoffBase * attempt)
    /\ attempt' = attempt + 1
    /\ UNCHANGED <<max_retries, dl_pc, dl_result>>

\* One iteration whose try block raised, with attempts left: sleep, continue.
DownloadAttemptRetries ==
    /\ dl_pc = "loop"
    /\ attempt < max_retries
    /\ attempt < max_retries - 1
    /\ \E r \in Responses :
        /\ ~AttemptSucceeds(r)
        /\ dl_log' = Append(dl_log, r)
    /\ sleeps' = Append(sleeps, Pow(BackoffBase, attempt))
    /\ attempt' = attempt + 1
    /\ UNCHANGED <<max_retries, dl_pc, dl_result>>

\* The last iteration's try block raised: HTTPException(status_code=400).
DownloadAttemptRaises ==
    /\ dl_pc = "loop"
    /\ attempt < max_retries
    /\ ~(attempt < max_retries - 1)
    /\ \E r \in Responses :
        /\ ~AttemptSucceeds(r)
        /\ dl_log' = Append(dl_log, r)
    /\ dl_pc' = "raised"
    /\ UNCHANGED <<max_retries, attempt, dl_result, sleeps>>

\* range(max_retries) is empty or exhausted: the function body ends and the
\* call returns None.
DownloadFallsThrough ==
    /\ dl_pc = "loop"
    /\ ~(attempt < max_retries)
    /\ dl_pc' = "fell_through"
    /\ UNCHANGED <<max_retries, attempt, dl_result, dl_log, sleeps>>

DownloadStep ==
    \/ DownloadAttemptReturns
    \/ DownloadAttemptRetries
    \/ DownloadAttemptRaises
    \/ DownloadFallsThrough

-----------------------------------------------------------------------------
(* The parts of the model at rest. *)

DownloadIdle ==
    /\ max_retries = 0
    /\ attempt = 0
    /\ dl_pc = "idle"
    /\ dl_result = NoResult
    /\ dl_log = <<>>
    /\ sleeps = <<>>

ChunkTextIdle ==
    /\ ct_pc = "idle"
    /\ ct_text = <<>>
    /\ ct_doc_type = "other"
    /\ ct_max = 0
    /\ ct_chunks = <<>>
    /\ ct_final = <<>>
    /\ ct_out = <<>>
    /\ ct_again = <<>>

CreateChunksIdle ==
    /\ cc_pc = "idle"
    /\ cc_pages = <<>>
    /\ cc_size = 0
    /\ cc_overlap = 0
    /\ cc_out = <<>>
    /\ cc_again = <<>>

NoPdf == [pypdf |-> [opens |-> FALSE, pages |-> <<>>],
          fitz |-> [opens |-> FALSE, pages |-> <<>>],
          partial |-> [opens |-> FALSE, pages |-> <<>>]]

NoResponse ==
    [kind |-> "none", status |-> 0, answers |-> <<>>, confidence_scores |-> <<>>,
     success |-> FALSE, detail |-> <<>>, path |-> "none"]

RequestIdle ==
    /\ endpoint = "none"
    /\ questions = <<>>
    /\ server = <<>>
    /\ pdf = NoPdf
    /\ rq_pc = "idle"
    /\ pdf_size = 0
    /\ document_text = <<>>
    /\ rq_doc_type = "none"
    /\ rq_pages_content = <<>>
    /\ rq_chunks = <<>>
    /\ embedded = <<>>
    /\ vector_db = EmptyDb
    /\ answers = <<>>
    /\ confidence_scores = <<>>
    /\ q_log = <<>>
    /\ llm_calls = 0
    /\ response = NoResponse

\* No call has been made on the FAISSVectorDB object.
NoCall == [op |-> "none", raised |-> FALSE, results |-> <<>>, stored |-> 0]

\* The deployment at rest: no system built, no request.
NoEnv == [use_pinecone |-> FALSE, library |-> FALSE, remote |-> "ok"]

ServiceIdle ==
    /\ sv_env = NoEnv
    /\ sv_system = "none"
    /\ sv_faiss = EmptyDb
    /\ sv_connected = FALSE
    /\ sv_remote = <<>>
    /\ sv_req = <<>>
    /\ sv_running = 0
    /\ sv_trace = <<>>
    /\ sv_last = NoCall

\* No function has been called on its own.
FunctionIdle ==
    /\ fn_pc = "idle"
    /\ fn_args = <<>>
    /\ fn_out = <<>>

-----------------------------------------------------------------------------
(* The fetcher alone, called with every max_retries in 0..MaxRetriesBound. *)

InitDownload ==
    DownloadIdle /\ ChunkTextIdle /\ CreateChunksIdle /\ RequestIdle /\ ServiceIdle
    /\ FunctionIdle

CallDownload == \E m \in 0..MaxRetriesBound : DownloadCall(m)

NextDownload ==
    \/ CallDownload /\ UNCHANGED <<ctVars, ccVars, rqVars, svVars, fnVars>>
    \/ DownloadAttemptReturns /\ UNCHANGED <<ctVars, ccVars, rqVars, svVars, fnVars>>
    \/ DownloadAttemptRetries /\ UNCHANGED <<ctVars, ccVars, rqVars, svVars, fnVars>>
    \/ DownloadAttemptRaises /\ UNCHANGED <<ctVars, ccVars, rqVars, svVars, fnVars>>
    \/ DownloadFallsThrough /\ UNCHANGED <<ctVars, ccVars, rqVars, svVars, fnVars>>

SpecDownload == InitDownload /\ [][NextDownload]_vars

-----------------------------------------------------------------------------
(* chunk_text_intelligently alone, applied to texts made of two stretches  *)
(* of text around a separator.                                             *)

\* The length of the longest stretch of plain text.
LongStretch == 130

\* A stretch a little longer than the smaller max_chunk_size explored.
ShortStretch == 70

Stretches ==
    { Rep("x", n) : n \in {0, MinChunkLen, MinChunkLen + 1, ShortStretch, LongStretch} }
    \cup { <<" ">> \o Rep("x", MinChunkLen + 1) \o <<" ", " ">>,
           Rep(" ", ShortStretch),
           Rep("x", 40) \o Rep(" ", 30) \o Rep("x", 40) }

Separators ==
    { <<>>,
      <<"\n", "\n">>,
      <<"s", "e", "c", "t", "i", "o", "n", " ", "1", "2">>,
      <<"A", "r", "t", "i", "c", "l", "e", " ", " ", "7">>,
      <<"c", "h", "a", "p", "t", "e", "r", "\n", "3">>,
      <<"p", "a", "r", "t", " ", "1">>,
      <<"c", "l", "a", "u", "s", "e", " ", "x">> }

\* The spec's example: one paragraph of 9,000 characters.
LongParagraph == Rep("x", 9000)

ChunkTexts ==
    { a \o sep \o b : a \in Stretches, sep \in Separators, b \in Stretches }
    \cup { LongParagraph }

DocTypes == {"legal", "insurance", "scientific", "other"}

MaxChunkSizes == {0, 60, 100, DefaultMaxChunkSize}

InitChunkText ==
    /\ DownloadIdle
    /\ CreateChunksIdle
    /\ RequestIdle
    /\ ServiceIdle
    /\ FunctionIdle
    /\ ct_pc = "called"
    /\ ct_text \in ChunkTexts
    /\ ct_doc_type \in DocTypes
    /\ ct_max \in MaxChunkSizes
    /\ ct_chunks = <<>>
    /\ ct_final = <<>>
    /\ ct_out = <<>>
    /\ ct_again = <<>>

ChunkTextReturns ==
    /\ ct_pc = "called"
    /\ ~ChunkTextRaises(ct_text, ct_doc_type, ct_max)
    /\ ct_chunks' = SplitByDocType(ct_text, ct_doc_type)
    /\ ct_final' = EnsureMaxSize(ct_chunks', ct_max)
    /\ ct_out' = chunk_text_intelligently(ct_text, ct_doc_type, ct_max)
    /\ ct_pc' = "returned"
    /\ UNCHANGED <<ct_text, ct_doc_type, ct_max, ct_again>>

ChunkTextFails ==
    /\ ct_pc = "called"
    /\ ChunkTextRaises(ct_text, ct_doc_type, ct_max)
    /\ ct_chunks' = SplitByDocType(ct_text, ct_doc_type)
    /\ ct_pc' = "raised"
    /\ UNCHANGED <<ct_text, ct_doc_type, ct_max, ct_final, ct_out, ct_again>>

NextChunkText ==
    \/ ChunkTextReturns /\ UNCHANGED <<dlVars, ccVars, rqVars, svVars, fnVars>>
    \/ ChunkTextFails /\ UNCHANGED <<dlVars, ccVars, rqVars, svVars, fnVars>>

SpecChunkText == InitChunkText /\ [][NextChunkText]_vars

-----------------------------------------------------------------------------
(* create_chunks alone, applied to documents of one or two pages whose     *)
(* text is up to MaxParas paragraphs joined by blank lines.                *)

\* The largest number of paragraphs of a page.
MaxParas == 3

Paragraphs ==
    { <<"a", "b", "c">>,
      <<"d", "e", ".", "f", "g", "h">>,
      <<"i", "j", "k", "l", "!", "m", "n", "o", "p", "q", "r">>,
      <<" ", "s", "?", " ", "t", " ">>,
      <<" ", " ">> }

\* paras[1] \n\n paras[2] \n\n ...
RECURSIVE JoinParagraphs(_)
JoinParagraphs(paras) ==
    IF Len(paras) = 0 THEN <<>>
    ELSE IF Len(paras) = 1 THEN paras[1]
    ELSE paras[1] \o <<"\n", "\n">> \o JoinParagraphs(Tail(paras))

PageTexts ==
    { JoinParagraphs(ps) : ps \in UNION { [1..n -> Paragraphs] : n \in 1..MaxParas } }

SecondPageTexts ==
    { JoinParagraphs(<<p, p>>) : p \in Paragraphs }

Documents ==
    { <<[page_number |-> 1, content |-> t]>> : t \in PageTexts }
    \cup { <<[page_number |-> 1, content |-> t], [page_number |-> 3, content |-> u]>> :
             t \in PageTexts, u \in SecondPageTexts }

ChunkSizes == {8, 10}

ChunkOverlaps == {0, 3, 4}

InitCreateChunks ==
    /\ DownloadIdle
    /\ ChunkTextIdle
    /\ RequestIdle
    /\ ServiceIdle
    /\ FunctionIdle
    /\ cc_pc = "called"
    /\ cc_pages \in Documents
    /\ cc_size \in ChunkSizes
    /\ cc_overlap \in ChunkOverlaps
    /\ cc_out = <<>>
    /\ cc_again = <<>>

CreateChunksReturns ==
    /\ cc_pc = "called"
    /\ cc_out' = create_chunks(cc_pages, cc_size, cc_overlap)
    /\ cc_pc' = "returned"
    /\ UNCHANGED <<cc_pages, cc_size, cc_overlap, cc_again>>

\* The caller reads the list and is done with it.
CreateChunksRead ==
    /\ cc_pc = "returned"
    /\ cc_pc' = "read"
    /\ UNCHANGED <<cc_pages, cc_size, cc_overlap, cc_out, cc_again>>

NextCreateChunks ==
    \/ CreateChunksReturns /\ UNCHANGED <<dlVars, ctVars, rqVars, svVars, fnVars>>
    \/ CreateChunksRead /\ UNCHANGED <<dlVars, ctVars, rqVars, svVars, fnVars>>

SpecCreateChunks == InitCreateChunks /\ [][NextCreateChunks]_vars

-----------------------------------------------------------------------------
(* Each chunker called twice with the same arguments: create_chunks on the *)
(* same PDFProcessor and the same pages_content, chunk_text_intelligently  *)
(* on the same text, doc_type and max_chunk_size.                          *)

\* A second call whose chunk_id goes on counting where the first call stopped.
CreateChunksAgainContinuingIds ==
    /\ cc_pc = "returned"
    /\ cc_again' = PageLoop([chunks |-> <<>>, chunk_id |-> Len(cc_out)],
                            cc_pages, cc_size, cc_overlap).chunks
    /\ cc_pc' = "returned_again"
    /\ UNCHANGED <<cc_pages, cc_size, cc_overlap, cc_out>>

\* The second call: chunks = [] and chunk_id = 0 are locals of the call, and
\* the call assigns neither a field of self nor an item of pages_content.
CreateChunksAgain ==
    /\ cc_pc = "returned"
    /\ cc_again' = create_chunks(cc_pages, cc_size, cc_overlap)
    /\ cc_pc' = "returned_again"
    /\ UNCHANGED <<cc_pages, cc_size, cc_overlap, cc_out>>

\* The second call of chunk_text_intelligently, a function of its arguments.
ChunkTextAgain ==
    /\ ct_pc = "returned"
    /\ ct_again' = chunk_text_intelligently(ct_text, ct_doc_type, ct_max)
    /\ ct_pc' = "returned_again"
    /\ UNCHANGED <<ct_text, ct_doc_type, ct_max, ct_chunks, ct_final, ct_out>>

\* The texts chunked twice.
RechunkTexts ==
    { a \o sep \o b :
        a \in {Rep("x", ShortStretch), Rep("x", 40) \o Rep(" ", 30) \o Rep("x", 40)},
        sep \in Separators,
        b \in {Rep("x", MinChunkLen + 1), Rep("x", LongStretch)} }
    \cup { LongParagraph }

InitRechunk ==
    \/ InitCreateChunks
    \/ InitChunkText /\ ct_text \in RechunkTexts

NextRechunk ==
    \/ CreateChunksReturns /\ UNCHANGED <<dlVars, ctVars, rqVars, svVars, fnVars>>
    \/ CreateChunksAgain /\ UNCHANGED <<dlVars, ctVars, rqVars, svVars, fnVars>>
    \/ ChunkTextReturns /\ UNCHANGED <<dlVars, ccVars, rqVars, svVars, fnVars>>
    \/ ChunkTextFails /\ UNCHANGED <<dlVars, ccVars, rqVars, svVars, fnVars>>
    \/ ChunkTextAgain /\ UNCHANGED <<dlVars, ccVars, rqVars, svVars, fnVars>>

SpecRechunk == InitRechunk /\ [][NextRechunk]_vars

-----------------------------------------------------------------------------
(* _get_overlap_text alone, and the seeding of the next buffer with what   *)
(* it returns, src/src/components/pdf_processor.py:107-110 and 132-150.    *)

\* The longest buffer handed to _get_overlap_text here.
MaxBufferLen == 5

BufferChars == {"a", ".", "!", " "}

\* The buffers: create_chunks builds current_chunk from stripped paragraphs,
\* so a buffer is not empty and ends with no whitespace.
Buffers ==
    { t \in UNION { [1..n -> BufferChars] : n \in 1..MaxBufferLen } :
        t[Len(t)] \notin Whitespace }

OverlapSizes == {0, 1, 3, 4}

SeedParagraphs == { <<"p">>, <<"q", ".", "r">> }

InitOverlap ==
    /\ DownloadIdle
    /\ ChunkTextIdle
    /\ CreateChunksIdle
    /\ RequestIdle
    /\ ServiceIdle
    /\ fn_pc = "called"
    /\ fn_args \in [fn : {"_get_overlap_text"}, text : Buffers, overlap_size : OverlapSizes,
                     para : SeedParagraphs]
    /\ fn_out = <<>>

\* overlap_text = self._get_overlap_text(current_chunk, self.chunk_overlap)
OverlapTextReturns ==
    /\ fn_pc = "called"
    /\ fn_args.fn = "_get_overlap_text"
    /\ fn_out' = [overlap_text |-> GetOverlapText(fn_args.text, fn_args.overlap_size),
                  current_chunk |-> fn_args.text]
    /\ fn_pc' = "returned"
    /\ UNCHANGED fn_args

\* current_chunk = overlap_text + "\n\n" + para if overlap_text else para
NewChunkSeeded ==
    /\ fn_pc = "returned"
    /\ fn_args.fn = "_get_overlap_text"
    /\ fn_out' = [fn_out EXCEPT !.current_chunk =
                      IF fn_out.overlap_text # <<>>
                      THEN fn_out.overlap_text \o <<"\n", "\n">> \o fn_args.para
                      ELSE fn_args.para]
    /\ fn_pc' = "seeded"
    /\ UNCHANGED fn_args

NextOverlap ==
    \/ OverlapTextReturns /\ UNCHANGED <<dlVars, ctVars, ccVars, rqVars, svVars>>
    \/ NewChunkSeeded /\ UNCHANGED <<dlVars, ctVars, ccVars, rqVars, svVars>>

SpecOverlap == InitOverlap /\ [][NextOverlap]_vars

-----------------------------------------------------------------------------
(* The FAISSVectorDB object alone: initialize, add_vectors, search and     *)
(* clear called in any order, src/src/components/vector_db_manager.py:44-121. *)

\* The most vectors the index is given.
MaxVectors == 3

\* The dimensions the index is initialized with.
Dimensions == {EmbeddingDim, EmbeddingDim + 1}

\* The vectors added and searched for, of both dimensions, zero vectors included.
SomeVectors ==
    { <<1, 0>>, <<0, 1>>, <<0, 0>>, <<-1, 1>>, <<1, 0, 0>>, <<0, 0, 0>> }

\* The top_k arguments explored.
TopKs == {-1, 0, 1, 10}

\* The metadata stored with the n-th vector added.
VectorMeta(n) == [chunk_id |-> n, content |-> <<"c">>, page_number |-> 1]

\* search without its first test: index.search is called on whatever
\* self.index is.
FaissSearchCallUnguarded(db, query_vector, top_k) ==
    IF ~db.initialized THEN {[raised |-> TRUE, results |-> <<>>]}
    ELSE IF Len(query_vector) # db.dimension \/ Min(top_k, Len(db.vectors)) <= 0
    THEN {[raised |-> TRUE, results |-> <<>>]}
    ELSE {[raised |-> FALSE, results |-> r] : r \in FaissSearch(db, query_vector, top_k)}

\* FAISSVectorDB.search as a call: it returns [] when self.index is None or
\* holds no vector; otherwise index.search raises on a query of another
\* dimension and on k = min(top_k, ntotal) <= 0, and the except clause
\* re-raises; otherwise it returns the metadata found.
FaissSearchCall(db, query_vector, top_k) ==
    IF ~db.initialized \/ Len(db.vectors) = 0
    THEN {[raised |-> FALSE, results |-> <<>>]}
    ELSE IF Len(query_vector) # db.dimension \/ Min(top_k, Len(db.vectors)) <= 0
    THEN {[raised |-> TRUE, results |-> <<>>]}
    ELSE {[raised |-> FALSE, results |-> r] : r \in FaissSearch(db, query_vector, top_k)}

\* FAISSVectorDB.add_vectors raises when self.index is None and when the
\* vectors are not of the index's dimension (index.add).
FaissAddRaises(db, vectors) ==
    ~db.initialized \/ \E i \in DOMAIN vectors : Len(vectors[i]) # db.dimension

FaissObjectCalled(op, raised, results) ==
    sv_last' = [op |-> op, raised |-> raised, results |-> results,
                stored |-> IF sv_faiss.initialized THEN Len(sv_faiss.vectors) ELSE 0]

FaissObjectInitialize ==
    /\ \E dimension \in Dimensions : sv_faiss' = FaissInitialize(sv_faiss, dimension)
    /\ FaissObjectCalled("initialize", FALSE, <<>>)

FaissObjectAdd ==
    \E v \in SomeVectors :
        /\ Len(sv_faiss.vectors) < MaxVectors
        /\ IF FaissAddRaises(sv_faiss, <<v>>)
           THEN /\ sv_faiss' = sv_faiss
                /\ FaissObjectCalled("add_vectors", TRUE, <<>>)
           ELSE /\ sv_faiss' = FaissAddChunks(sv_faiss,
                                   <<[chunk |-> VectorMeta(Len(sv_faiss.vectors)),
                                      embedding |-> v]>>)
                /\ FaissObjectCalled("add_vectors", FALSE, <<>>)

FaissObjectSearch ==
    \E query_vector \in SomeVectors : \E top_k \in TopKs :
    \E outcome \in FaissSearchCall(sv_faiss, query_vector, top_k) :
        /\ FaissObjectCalled("search", outcome.raised, outcome.results)
        /\ sv_faiss' = sv_faiss

FaissObjectClear ==
    /\ sv_faiss' = FaissClear(sv_faiss)
    /\ FaissObjectCalled("clear", FALSE, <<>>)

InitFaissObject ==
    /\ DownloadIdle
    /\ ChunkTextIdle
    /\ CreateChunksIdle
    /\ RequestIdle
    /\ ServiceIdle
    /\ FunctionIdle

NextFaissObject ==
    \/ FaissObjectInitialize
         /\ UNCHANGED <<dlVars, ctVars, ccVars, rqVars, sv_env, sv_system, sv_connected,
                        sv_remote, sv_req, sv_running, sv_trace, fnVars>>
    \/ FaissObjectAdd
         /\ UNCHANGED <<dlVars, ctVars, ccVars, rqVars, sv_env, sv_system, sv_connected,
                        sv_remote, sv_req, sv_running, sv_trace, fnVars>>
    \/ FaissObjectSearch
         /\ UNCHANGED <<dlVars, ctVars, ccVars, rqVars, sv_env, sv_system, sv_connected,
                        sv_remote, sv_req, sv_running, sv_trace, fnVars>>
    \/ FaissObjectClear
         /\ UNCHANGED <<dlVars, ctVars, ccVars, rqVars, sv_env, sv_system, sv_connected,
                        sv_remote, sv_req, sv_running, sv_trace, fnVars>>

SpecFaissObject == InitFaissObject /\ [][NextFaissObject]_vars

-----------------------------------------------------------------------------
(* A VectorDBManager on FAISS: initialize, add_chunks, search_similar_chunks *)
(* and clear called in any order,                                           *)
(* src/src/components/vector_db_manager.py:268-291.                         *)

\* The embeddings of the chunks handed to add_chunks, by chunk number: of
\* both dimensions, a zero vector among them.
ChunkVectors == << <<1, 0>>, <<0, 1>>, <<0, 0>>, <<-1, 1>>, <<1, 0, 0>>, <<0, 0, 1>> >>

\* A chunk with its embedding, as process_chunks_for_embedding leaves it.
EmbeddedChunk(n) ==
    [chunk_id |-> n, content |-> <<"c">>, page_number |-> 1, embedding |-> ChunkVectors[n + 1]]

\* The lists of chunks add_chunks is called with: none, one or two chunks.
ChunkBatches ==
    LET ids == 0..(Len(ChunkVectors) - 1)
    IN  {<<>>} \cup { <<EmbeddedChunk(a)>> : a \in ids }
        \cup { <<EmbeddedChunk(a), EmbeddedChunk(b)>> : a, b \in ids }

\* {k: v for k, v in chunk.items() if k != "embedding"}
WithoutEmbedding(chunk) ==
    [chunk_id |-> chunk.chunk_id, content |-> chunk.content, page_number |-> chunk.page_number]

\* add_chunks with self.metadata.extend(metadata) ahead of self.index.add.
ManagerAddChunksMetadataFirst ==
    \E chunks \in ChunkBatches :
        /\ Len(sv_faiss.metadata) + Len(chunks) <= MaxVectors
        /\ LET vectors == [i \in DOMAIN chunks |-> chunks[i].embedding]
               metadata == [i \in DOMAIN chunks |-> WithoutEmbedding(chunks[i])]
               raises == chunks = <<>> \/ FaissAddRaises(sv_faiss, vectors)
           IN  /\ sv_faiss' = [sv_faiss EXCEPT
                                 !.metadata = @ \o metadata,
                                 !.vectors = IF raises THEN @ ELSE @ \o vectors]
               /\ FaissObjectCalled("add_chunks", raises, <<>>)

\* VectorDBManager.add_chunks: np.array of the embeddings, the metadata, and
\* FAISSVectorDB.add_vectors, where _normalize_vectors raises on an empty
\* array, index.add on vectors of another dimension, and self.metadata is
\* extended after index.add returned.
ManagerAddChunks ==
    \E chunks \in ChunkBatches :
        /\ Len(sv_faiss.vectors) + Len(chunks) <= MaxVectors
        /\ LET vectors == [i \in DOMAIN chunks |-> chunks[i].embedding]
               metadata == [i \in DOMAIN chunks |-> WithoutEmbedding(chunks[i])]
               raises == chunks = <<>> \/ FaissAddRaises(sv_faiss, vectors)
           IN  /\ sv_faiss' = IF raises THEN sv_faiss
                              ELSE [sv_faiss EXCEPT !.vectors = @ \o vectors,
                                                    !.metadata = @ \o metadata]
               /\ FaissObjectCalled("add_chunks", raises, <<>>)

\* VectorDBManager.search_similar_chunks(query_embedding, top_k)
ManagerSearch ==
    \E query_vector \in SomeVectors : \E top_k \in TopKs :
    \E outcome \in FaissSearchCall(sv_faiss, query_vector, top_k) :
        /\ sv_last' = [op |-> "search_similar_chunks", raised |-> outcome.raised,
                       results |-> outcome.results, query_vector |-> query_vector,
                       top_k |-> top_k,
                       stored |-> IF sv_faiss.initialized THEN Len(sv_faiss.vectors) ELSE 0]
        /\ sv_faiss' = sv_faiss

\* VectorDBManager.initialize(dimension) and VectorDBManager.clear() are
\* the calls of the FAISSVectorDB object.
NextManager ==
    \/ FaissObjectInitialize
         /\ UNCHANGED <<dlVars, ctVars, ccVars, rqVars, sv_env, sv_system, sv_connected,
                        sv_remote, sv_req, sv_running, sv_trace, fnVars>>
    \/ ManagerAddChunks
         /\ UNCHANGED <<dlVars, ctVars, ccVars, rqVars, sv_env, sv_system, sv_connected,
                        sv_remote, sv_req, sv_running, sv_trace, fnVars>>
    \/ ManagerSearch
         /\ UNCHANGED <<dlVars, ctVars, ccVars, rqVars, sv_env, sv_system, sv_connected,
                        sv_remote, sv_req, sv_running, sv_trace, fnVars>>
    \/ FaissObjectClear
         /\ UNCHANGED <<dlVars, ctVars, ccVars, rqVars, sv_env, sv_system, sv_connected,
                        sv_remote, sv_req, sv_running, sv_trace, fnVars>>

SpecManager == InitFaissObject /\ [][NextManager]_vars

-----------------------------------------------------------------------------
(* VectorDBManager.__init__ alone, branch by branch, and the backend type   *)
(* get_system_status reports: src/src/components/vector_db_manager.py:243-266, *)
(* src/src/components/query_retrieval_system.py:31-43, 121-137.             *)

PineconeConfigKeys == {"api_key", "environment", "index_name"}

\* The pinecone_config arguments: None, and the dicts with any of the keys.
PineconeConfigs ==
    {[given |-> FALSE, keys |-> {}]} \cup [given : {TRUE}, keys : SUBSET PineconeConfigKeys]

\* bool(pinecone_config): None and {} are false.
ConfigIsTruthy(pinecone_config) == pinecone_config.given /\ pinecone_config.keys # {}

\* The constructions explored: VectorDBManager(use_pinecone, pinecone_config)
\* called with any arguments, and QueryRetrievalSystem(config) calling it,
\* each with and without the pinecone library.
ManagerConstructions ==
    [fn : {"VectorDBManager"}, use_pinecone : BOOLEAN, pinecone_config : PineconeConfigs,
     library : BOOLEAN]
    \cup [fn : {"QueryRetrievalSystem"}, use_pinecone : BOOLEAN,
          pinecone_config : {[given |-> FALSE, keys |-> {}]}, library : BOOLEAN]

InitManagerInit ==
    /\ DownloadIdle
    /\ ChunkTextIdle
    /\ CreateChunksIdle
    /\ RequestIdle
    /\ ServiceIdle
    /\ fn_args \in ManagerConstructions
    /\ fn_pc = IF fn_args.fn = "QueryRetrievalSystem" THEN "system" ELSE "called"
    /\ fn_out = [use_pinecone |-> FALSE, db |-> "unset", type |-> "unset"]

\* QueryRetrievalSystem.__init__: vector_db_config is a dict of the three
\* keys if config.get("use_pinecone", False), else None.
SystemBuildsManager ==
    /\ fn_pc = "system"
    /\ fn_args' = [fn_args EXCEPT !.pinecone_config =
                      IF fn_args.use_pinecone
                      THEN [given |-> TRUE, keys |-> PineconeConfigKeys]
                      ELSE [given |-> FALSE, keys |-> {}]]
    /\ fn_pc' = "called"
    /\ UNCHANGED fn_out

\* self.use_pinecone = use_pinecone; self.db = None
ManagerInitStoresFlag ==
    /\ fn_pc = "called"
    /\ fn_out' = [fn_out EXCEPT !.use_pinecone = fn_args.use_pinecone, !.db = "None"]
    /\ fn_pc' = "choose"
    /\ UNCHANGED fn_args

\* if use_pinecone and pinecone_config: if not PINECONE_AVAILABLE
ManagerInitNoLibrary ==
    /\ fn_pc = "choose"
    /\ fn_args.use_pinecone /\ ConfigIsTruthy(fn_args.pinecone_config)
    /\ ~fn_args.library
    /\ fn_out' = [fn_out EXCEPT !.use_pinecone = FALSE, !.db = "FAISS"]
    /\ fn_pc' = "built"
    /\ UNCHANGED fn_args

\* try: self.db = PineconeVectorDB(api_key=pinecone_config["api_key"], ...);
\* a missing key raises a KeyError, and the except clause falls back.
ManagerInitTriesPinecone ==
    /\ fn_pc = "choose"
    /\ fn_args.use_pinecone /\ ConfigIsTruthy(fn_args.pinecone_config)
    /\ fn_args.library
    /\ fn_out' = IF fn_args.pinecone_config.keys = PineconeConfigKeys
                 THEN [fn_out EXCEPT !.db = "Pinecone"]
                 ELSE [fn_out EXCEPT !.use_pinecone = FALSE, !.db = "FAISS"]
    /\ fn_pc' = "built"
    /\ UNCHANGED fn_args

\* else: self.db = FAISSVectorDB()
ManagerInitElseFaiss ==
    /\ fn_pc = "choose"
    /\ ~(fn_args.use_pinecone /\ ConfigIsTruthy(fn_args.pinecone_config))
    /\ fn_out' = [fn_out EXCEPT !.db = "FAISS"]
    /\ fn_pc' = "built"
    /\ UNCHANGED fn_args

\* get_system_status: "Pinecone" if self.vector_db.use_pinecone else "FAISS"
GetSystemStatus ==
    /\ fn_pc = "built"
    /\ fn_out' = [fn_out EXCEPT !.type = IF fn_out.use_pinecone THEN "Pinecone" ELSE "FAISS"]
    /\ fn_pc' = "reported"
    /\ UNCHANGED fn_args

NextManagerInit ==
    \/ SystemBuildsManager /\ UNCHANGED <<dlVars, ctVars, ccVars, rqVars, svVars>>
    \/ ManagerInitStoresFlag /\ UNCHANGED <<dlVars, ctVars, ccVars, rqVars, svVars>>
    \/ ManagerInitNoLibrary /\ UNCHANGED <<dlVars, ctVars, ccVars, rqVars, svVars>>
    \/ ManagerInitTriesPinecone /\ UNCHANGED <<dlVars, ctVars, ccVars, rqVars, svVars>>
    \/ ManagerInitElseFaiss /\ UNCHANGED <<dlVars, ctVars, ccVars, rqVars, svVars>>
    \/ GetSystemStatus /\ UNCHANGED <<dlVars, ctVars, ccVars, rqVars, svVars>>

SpecManagerInit == InitManagerInit /\ [][NextManagerInit]_vars

-----------------------------------------------------------------------------
(* The pieces of one request.                                              *)

\* if len(request.questions) > 10
WebhookMaxQuestions == 10

\* if len(request.questions) > 20
HackrxMaxQuestions == 20

\* settings.chunk_size and settings.chunk_overlap
ConfigChunkSize == 500

ConfigChunkOverlap == 50

\* search_similar_chunks(query_embedding, top_k=10)
SearchTopK == 10

\* len(page_text.strip()) > 10
MinPageTextLen == 10

\* len(text.strip()) > 100
MinUsableTextLen == 100

\* max_pages = min(total_pages, 200)
MaxPages == 200

\* if len(text) > 100000: break
MaxTextLen == 100000

\* if len(pdf_content) > 1000
PartialMinPdfSize == 1000

\* pdf_content[:min(len(pdf_content), 50 * 1024 * 1024)]
PartialPrefixSize == 52428800

\* max_pages = min(len(pdf_reader.pages), 50)
PartialMaxPages == 50

\* if len(text) > 50000: break
PartialMaxTextLen == 50000

HttpError(status, detail, path) ==
    [kind |-> "http_error", status |-> status, answers |-> <<>>,
     confidence_scores |-> <<>>, success |-> FALSE, detail |-> detail, path |-> path]

ResponseBody(answer_list, success, scores, path) ==
    [kind |-> "body", status |-> 200, answers |-> answer_list,
     confidence_scores |-> scores, success |-> success, detail |-> <<>>, path |-> path]

\* The float 0.0 as a fraction.
ZeroConfidence == [num |-> 0, den |-> 1]

\* What the server answers to attempt number a (from 0): it repeats its last
\* answer once the list is used up.
ServerResponse(a) == server[Min(a + 1, Len(server))]

\* str(e) of the exception an attempt ends with.
ExcText(r) ==
    IF r.exc = "timeout" THEN <<"R", "e", "a", "d", " ", "t", "i", "m", "e", "d", " ", "o",
            "u", "t">>
    ELSE IF r.exc = "request" THEN <<"C", "o", "n", "n", "e", "c", "t", "i", "o", "n", " ",
            "a", "b", "o", "r", "t", "e", "d">>
    ELSE IF RaiseForStatus(r) THEN ToStr(r.status) \o <<" ", "E", "r", "r", "o", "r", " ",
            "f", "o", "r", " ", "u", "r", "l">>
    ELSE <<"D", "o", "w", "n", "l", "o", "a", "d", "e", "d", " ", "c", "o", "n", "t", "e",
            "n", "t", " ", "t", "o", "o", " ", "s", "m", "a", "l", "l", " ", "t", "o", " ",
                    "b", "e", " ", "a", " ", "v", "a", "l", "i", "d", " ", "P", "D", "F">>

\* One iteration of the page loop of an extraction strategy, on the loop's
\* state st = [text, visited, stopped]: a page that raises is skipped, a page
\* with enough text is appended with a newline, and the loop is left (break)
\* once the text is longer than text_limit.
PageRead(st, page, min_len, text_limit) ==
    IF st.stopped THEN st
    ELSE LET read == IF page.ok /\ page.text # <<>> /\ Len(Strip(page.text)) > min_len
                     THEN st.text \o page.text \o <<"\n">>
                     ELSE st.text
         IN  [text |-> read,
              visited |-> st.visited + 1,
              stopped |-> page.ok /\ Len(read) > text_limit]

\* The iterations over pages in order, the first half and then the second.
RECURSIVE PageReadLoop(_, _, _, _)
PageReadLoop(st, pages, min_len, text_limit) ==
    IF st.stopped \/ pages = <<>> THEN st
    ELSE IF Len(pages) = 1 THEN PageRead(st, pages[1], min_len, text_limit)
    ELSE LET half == Len(pages) \div 2
         IN  PageReadLoop(PageReadLoop(st, SubSeq(pages, 1, half), min_len, text_limit),
                          SubSeq(pages, half + 1, Len(pages)), min_len, text_limit)

\* The text the page loop of a strategy has collected when it ends.
ReadPages(pages, text, min_len, text_limit) ==
    PageReadLoop([text |-> text, visited |-> 0, stopped |-> FALSE], pages, min_len,
                 text_limit).text

\* The text one strategy collects from a reader that opened the document.
StrategyText(reader, max_pages, min_len, text_limit) ==
    ReadPages(Take(reader.pages, max_pages), <<>>, min_len, text_limit)

\* if len(text.strip()) > 100
Usable(text) == Len(Strip(text)) > MinUsableTextLen

ErrorPrefix == <<"E", "R", "R", "O", "R", ":">>

ExtractionFailedText ==
    ErrorPrefix \o <<" Unable to extract text from this PDF document. The document may be corrupted, password-protected, or in an unsupported format. Please try with a different document.">>

\* extract_text_from_pdf_enhanced(pdf_content): PyPDF2, then PyMuPDF, then
\* PyPDF2 on the first 50 MB when the content is longer than 1000 bytes.
extract_text_from_pdf_enhanced(document, size) ==
    LET first == StrategyText(document.pypdf, MaxPages, MinPageTextLen, MaxTextLen)
        second == StrategyText(document.fitz, MaxPages, MinPageTextLen, MaxTextLen)
        prefix_reader == IF size <= PartialPrefixSize THEN document.pypdf
                         ELSE document.partial
        third == StrategyText(prefix_reader, PartialMaxPages, -1, PartialMaxTextLen)
    IN  IF document.pypdf.opens /\ Usable(first) THEN Strip(clean_text(first))
        ELSE IF document.fitz.opens /\ Usable(second) THEN Strip(clean_text(second))
        ELSE IF size > PartialMinPdfSize /\ prefix_reader.opens /\ Usable(third)
        THEN Strip(clean_text(third))
        ELSE ExtractionFailedText

\* if not document_text or document_text.startswith("ERROR:")
ExtractionFailed(text) == text = <<>> \/ StartsWith(text, ErrorPrefix)

\* The answer webhook_test repeats for every question after a failed extraction.
UnableToProcessDocument(text) ==
    <<"Unable to process this document: ">>
    \o (IF text # <<>> /\ StartsWith(text, ErrorPrefix) THEN text
        ELSE <<"No text could be extracted from the PDF document">>)
    \o <<". Please try with a different document or contact support for assistance with large/complex documents.">>

\* The except clause of process_question_with_enhanced_gemini, and of
\* webhook_test.
TechnicalErrorAnswer(exc_text) ==
    <<"Unable to process question due to technical error: ">> \o exc_text

\* process_question_with_enhanced_gemini(document_text, question, doc_type),
\* given what generate_content does: llm.ok and the response text, or the
\* text of the exception it raises.
process_question_with_enhanced_gemini(text, question, dtype, llm) ==
    LET split == chunk_text_intelligently(text, dtype, DefaultMaxChunkSize)
        relevant_chunks == find_relevant_chunks(split, question, DefaultMaxChunks)
        context_text == Join(<<"\n", "\n">>, Take(relevant_chunks, ContextChunks))
        answer == Strip(llm.text)
    IN  IF ~llm.ok
        THEN [answer |-> TechnicalErrorAnswer(llm.text), confidence |-> ZeroConfidence,
              failed |-> "llm"]
        ELSE IF ConfidenceRaises(answer, question)
        THEN [answer |-> TechnicalErrorAnswer(<<"division by zero">>),
              confidence |-> ZeroConfidence, failed |-> "confidence"]
        ELSE [answer |-> answer,
              confidence |-> calculate_confidence_score(answer, question, context_text),
              failed |-> "none"]

\* The entry of q_log for one question.
LogEntry(question, failed, parse_failed, llm, retrieved, query_vector) ==
    [question |-> question, failed |-> failed, parse_failed |-> parse_failed, llm_ok |-> llm.ok,
     llm_text |-> llm.text, retrieved |-> retrieved, query_vector |-> query_vector]

NoLlm == [ok |-> FALSE, text |-> <<>>]

\* parse_query(query, document_context), given the reply of generate_content
\* and the order `entities` the fallback's set of entities comes out in.
parse_query(query, reply, entities) ==
    IF reply.kind = "json"
    THEN [intent |-> "coverage_inquiry", key_entities |-> reply.key_entities,
          entities_ok |-> reply.entities_ok, keywords |-> reply.keywords,
          refined_query |-> reply.refined_query, fallback |-> FALSE]
    ELSE FallbackParse(query, entities)

\* An except clause that answers with the empty string.
EmptyErrorAnswer(exc_text) == <<>>

\* The except clause of _answer_single_question.
QuestionErrorAnswer(exc_text) ==
    <<"An error occurred while processing your question: ">> \o exc_text

\* evaluate_retrieved_content(query, retrieved_chunks), given what
\* generate_content does.
evaluate_retrieved_content(retrieved_chunks, llm) ==
    IF llm.ok THEN Strip(llm.text) ELSE GenerateFallbackAnswer(retrieved_chunks)

\* process_chunks_for_embedding(chunks)
process_chunks_for_embedding(chunk_list) ==
    [i \in DOMAIN chunk_list |->
        [chunk |-> chunk_list[i], embedding |-> Embed(chunk_list[i].content)]]

\* The message of the exception process_document_and_questions raises.
DocumentProcessingFailed(message) == <<"D", "o", "c", "u", "m", "e", "n", "t", " ", "p", "r",
        "o", "c", "e", "s", "s", "i", "n", "g", " ", "f", "a", "i", "l", "e", "d", ":",
                " ">> \o message

FailedToDownloadPdf(exc_text) == <<"F", "a", "i", "l", "e", "d", " ", "t", "o", " ", "d", "o",
        "w", "n", "l", "o", "a", "d", " ", "P", "D", "F", ":", " ">> \o exc_text

FailedToExtractText(exc_text) == <<"F", "a", "i", "l", "e", "d", " ", "t", "o", " ", "e", "x",
        "t", "r", "a", "c", "t", " ", "t", "e", "x", "t", " ", "f", "r", "o", "m", " ", "P",
                "D", "F", ":", " ">> \o exc_text

NoContentExtracted == <<"N", "o", " ", "c", "o", "n", "t", "e", "n", "t", " ", "e", "x", "t",
        "r", "a", "c", "t", "e", "d", " ", "f", "r", "o", "m", " ", "d", "o", "c", "u", "m",
                "e", "n", "t">>

FailedToEmbed(exc_text) ==
    <<"F", "a", "i", "l", "e", "d", " ", "t", "o", " ", "p", "r", "o", "c", "e", "s", "s",
            " ", "c", "h", "u", "n", "k", "s", " ", "f", "o", "r", " ", "e", "m", "b", "e",
                    "d", "d", "i", "n", "g", ":", " ", "F", "a", "i", "l", "e", "d", " ", "t",
                            "o", " ", "g", "e", "n", "e", "r", "a", "t", "e", " ", "e", "m",
                                    "b", "e", "d", "d", "i", "n", "g", "s", ":", " ">> \o exc_text

\* EmbeddingGenerator._load_model: raise Exception(f"Failed to load embedding model: {str(e)}")
FailedToLoadModel(exc_text) ==
    <<"F", "a", "i", "l", "e", "d", " ", "t", "o", " ", "l", "o", "a", "d", " ", "e", "m",
      "b", "e", "d", "d", "i", "n", "g", " ", "m", "o", "d", "e", "l", ":", " ">> \o exc_text

\* An except clause that reports every failure as an internal error.
InternalErrorFor(message, path) ==
    HttpError(500, <<"Internal processing error: ">> \o message, path)

\* The except clause of process_query (/hackrx/run): the status and the
\* detail are chosen by the words found in the lower-cased message.
ErrorResponseFor(message, path) ==
    LET lowered == Lower(message)
    IN  IF Contains(lowered, <<"d", "o", "w", "n", "l", "o", "a", "d">>)
        THEN HttpError(400, <<"Failed to download document: ">> \o message, path)
        ELSE IF Contains(lowered, <<"p", "a", "r", "s", "e">>) \/ Contains(lowered, <<"e",
                "x", "t", "r", "a", "c", "t">>)
        THEN HttpError(422, <<"Failed to process document: ">> \o message, path)
        ELSE HttpError(500, <<"Internal processing error: ">> \o message, path)

-----------------------------------------------------------------------------
(* The service: the global QueryRetrievalSystem of src/src/api/endpoints.py *)
(* answering requests to /hackrx/run on one event loop, with the FAISS or   *)
(* the Pinecone backend of src/src/components/vector_db_manager.py.         *)

\* The number of requests in flight.
NumRequests == 2

\* The numbers of questions a request asks.
AskedCounts == {1, 2}

MostAsked == CHOOSE n \in AskedCounts : \A m \in AskedCounts : n >= m

RequestIds == 1..NumRequests

\* The documents behind the URLs: one of three chunks, one of one chunk, one
\* without text, and one that cannot be fetched.
DocumentNames == {"policy", "article", "blank", "missing"}

\* The chunks process_document returns for a document.
DocChunksOf(name) ==
    IF name = "policy"
    THEN <<[chunk_id |-> 0, content |-> <<"p", "r", "e", "m", "i", "u", "m">>, page_number |-> 1],
           [chunk_id |-> 1, content |-> <<"g", "r", "a", "c", "e">>, page_number |-> 1],
           [chunk_id |-> 2, content |-> <<"c", "l", "a", "i", "m", "s">>, page_number |-> 2]>>
    ELSE IF name = "article"
    THEN <<[chunk_id |-> 0, content |-> <<"t", "h", "e", "o", "r", "e", "m", "s">>,
            page_number |-> 1]>>
    ELSE <<>>

ChunkSet(name) == {DocChunksOf(name)[i] : i \in DOMAIN DocChunksOf(name)}

\* The deployments: FAISS configured; Pinecone configured with the library
\* missing, with a working index, with a missing or invalid API key, and with
\* the service unreachable.
ServiceEnvs ==
    { [use_pinecone |-> FALSE, library |-> TRUE, remote |-> "ok"],
      [use_pinecone |-> TRUE, library |-> FALSE, remote |-> "ok"],
      [use_pinecone |-> TRUE, library |-> TRUE, remote |-> "ok"],
      [use_pinecone |-> TRUE, library |-> TRUE, remote |-> "bad_key"],
      [use_pinecone |-> TRUE, library |-> TRUE, remote |-> "unreachable"] }

\* VectorDBManager.__init__: the backend chosen.  PineconeVectorDB.__init__
\* raises only when the library is missing; it stores the key and connects
\* to nothing.
BuildVectorDb(env) ==
    IF env.use_pinecone /\ env.library THEN "pinecone" ELSE "faiss"

\* PineconeVectorDB.initialize raises when Pinecone(api_key=...),
\* list_indexes or create_index fails.
PineconeInitializeRaises(env) == env.remote # "ok"

\* index.upsert: a vector replaces the one of the same id, or is added.
RECURSIVE PineconeUpsert(_, _)
PineconeUpsert(remote, chunks_with_embeddings) ==
    IF chunks_with_embeddings = <<>> THEN remote
    ELSE LET c == Head(chunks_with_embeddings)
             entry == [id |-> c.chunk.chunk_id, values |-> c.embedding, metadata |-> c.chunk]
             at == SelectSeq([k \in 1..Len(remote) |-> k],
                             LAMBDA k : remote[k].id = entry.id)
             stored == IF at = <<>> THEN Append(remote, entry)
                       ELSE [remote EXCEPT ![at[1]] = entry]
         IN  PineconeUpsert(stored, Tail(chunks_with_embeddings))

\* PineconeVectorDB.search: [] when self.index is None, else the metadata of
\* the top_k best matches of the remote index.
PineconeSearch(connected, remote, query_vector, top_k) ==
    IF ~connected THEN {<<>>}
    ELSE LET picks == BestFirst([k \in DOMAIN remote |-> remote[k].values], query_vector,
                                DOMAIN remote, Min(top_k, Len(remote)))
         IN  { [a \in DOMAIN r |-> remote[r[a]].metadata] : r \in picks }

\* What the index of the backend in use holds.
IndexContents ==
    IF sv_system = "pinecone"
    THEN {sv_remote[i].metadata : i \in DOMAIN sv_remote}
    ELSE {sv_faiss.metadata[i] : i \in DOMAIN sv_faiss.metadata}

\* An entry of sv_trace.
Event(r, step, q, chunk_set) == [req |-> r, step |-> step, q |-> q, chunks |-> chunk_set]

\* The embedding of the q-th question of a request.
QueryVector(q) == Embed(Rep("q", q))

\* The handler of request r is the coroutine the event loop is running.
OnLoop(r) == sv_running = r

\* The handler ends with an HTTPException: the index is left as it is.
ServiceFails(r, status, stage, events) ==
    /\ sv_req' = [sv_req EXCEPT ![r].pc = "done", ![r].outcome = status, ![r].failed = stage]
    /\ sv_running' = 0
    /\ sv_trace' = sv_trace \o events \o <<Event(r, "finish", 0, IndexContents)>>
    /\ UNCHANGED <<sv_env, sv_system, sv_faiss, sv_connected, sv_remote, sv_last>>

\* The event loop starts the handler of a request when no handler is
\* running: process_query and all it awaits call blocking functions only
\* (requests.get, fitz, encode, generate_content), so a handler never gives
\* the loop back before it returns.  get_query_system() builds the system on
\* the first request.
ServiceStarts(r) ==
    /\ sv_req[r].pc = "queued"
    /\ sv_running = 0
    /\ sv_running' = r
    /\ sv_system' = IF sv_system = "none" THEN BuildVectorDb(sv_env) ELSE sv_system
    /\ sv_req' = [sv_req EXCEPT ![r].pc = "fetch"]
    /\ UNCHANGED <<sv_env, sv_faiss, sv_connected, sv_remote, sv_trace, sv_last>>

\* chunks = await self.pdf_processor.process_document(document_url)
ServiceProcessesDocument(r) ==
    /\ sv_req[r].pc = "fetch"
    /\ OnLoop(r)
    /\ IF sv_req[r].doc = "missing"
       THEN ServiceFails(r, 400, "download", <<>>)
       ELSE IF DocChunksOf(sv_req[r].doc) = <<>>
       THEN ServiceFails(r, 422, "extract",
                         <<Event(r, "fetch", 0, {}), Event(r, "extract", 0, {}),
                           Event(r, "chunk", 0, {})>>)
       ELSE /\ sv_req' = [sv_req EXCEPT ![r].pc = "embed"]
            /\ sv_trace' = sv_trace \o <<Event(r, "fetch", 0, {}), Event(r, "extract", 0, {}),
                                          Event(r, "chunk", 0, {})>>
            /\ UNCHANGED <<sv_env, sv_system, sv_faiss, sv_connected, sv_remote,
                           sv_running, sv_last>>

\* chunks_with_embeddings = process_chunks_for_embedding(chunks)
ServiceEmbeds(r) ==
    /\ sv_req[r].pc = "embed"
    /\ OnLoop(r)
    /\ sv_req' = [sv_req EXCEPT ![r].pc = "index"]
    /\ sv_trace' = Append(sv_trace, Event(r, "embed", 0, {}))
    /\ UNCHANGED <<sv_env, sv_system, sv_faiss, sv_connected, sv_remote, sv_running, sv_last>>

\* self.model.encode raises.
ServiceEmbeddingFails(r) ==
    /\ sv_req[r].pc = "embed"
    /\ OnLoop(r)
    /\ ServiceFails(r, 500, "embed", <<>>)

\* self.vector_db.initialize(dimension); self.vector_db.add_chunks(...)
ServiceIndexes(r) ==
    /\ sv_req[r].pc = "index"
    /\ OnLoop(r)
    /\ LET embedded_chunks == process_chunks_for_embedding(DocChunksOf(sv_req[r].doc))
       IN  IF sv_system = "faiss"
           THEN /\ sv_faiss' = FaissAddChunks(FaissInitialize(sv_faiss, EmbeddingDim),
                                              embedded_chunks)
                /\ UNCHANGED <<sv_connected, sv_remote>>
           ELSE /\ ~PineconeInitializeRaises(sv_env)
                /\ sv_connected' = TRUE
                /\ sv_remote' = PineconeUpsert(sv_remote, embedded_chunks)
                /\ UNCHANGED sv_faiss
    /\ UNCHANGED <<sv_env, sv_system, sv_running, sv_last>>
    /\ sv_req' = [sv_req EXCEPT ![r].pc = "questions"]
    /\ sv_trace' = Append(sv_trace, Event(r, "index", 0, IndexContents'))

\* PineconeVectorDB.initialize raises "Failed to initialize Pinecone index".
ServiceInitializeFails(r) ==
    /\ sv_req[r].pc = "index"
    /\ OnLoop(r)
    /\ sv_system = "pinecone"
    /\ PineconeInitializeRaises(sv_env)
    /\ ServiceFails(r, 500, "index", <<>>)

\* The steps of _answer_single_question for question q, given what the
\* search returned.
QuestionEvents(r, q, found) ==
    <<Event(r, "parse", q, {}), Event(r, "retrieve", q, {found[i] : i \in DOMAIN found})>>
    \o (IF found = <<>> THEN <<>> ELSE <<Event(r, "synthesize", q, {})>>)

\* The loop body with self.vector_db.clear() moved into the loop.
ServiceAnswersThenClears(r) ==
    /\ sv_req[r].pc = "questions"
    /\ OnLoop(r)
    /\ sv_req[r].answered < sv_req[r].asked
    /\ sv_system = "faiss"
    /\ \E found \in FaissSearch(sv_faiss, QueryVector(sv_req[r].answered + 1), SearchTopK) :
           sv_trace' = sv_trace \o QuestionEvents(r, sv_req[r].answered + 1, found)
                       \o <<Event(r, "clear", 0, {})>>
    /\ sv_faiss' = FaissClear(sv_faiss)
    /\ sv_req' = [sv_req EXCEPT ![r].answered = @ + 1]
    /\ UNCHANGED <<sv_env, sv_system, sv_connected, sv_remote, sv_running, sv_last>>

\* answer = await self._answer_single_question(question, document_context)
ServiceAnswers(r) ==
    /\ sv_req[r].pc = "questions"
    /\ OnLoop(r)
    /\ sv_req[r].answered < sv_req[r].asked
    /\ \E found \in IF sv_system = "faiss"
                    THEN FaissSearch(sv_faiss, QueryVector(sv_req[r].answered + 1), SearchTopK)
                    ELSE PineconeSearch(sv_connected, sv_remote,
                                        QueryVector(sv_req[r].answered + 1), SearchTopK) :
           sv_trace' = sv_trace \o QuestionEvents(r, sv_req[r].answered + 1, found)
    /\ sv_req' = [sv_req EXCEPT ![r].answered = @ + 1]
    /\ UNCHANGED <<sv_env, sv_system, sv_faiss, sv_connected, sv_remote, sv_running, sv_last>>

\* PineconeVectorDB.search raises "Failed to search Pinecone index" when
\* index.query fails; _answer_single_question catches it and returns the
\* error text as the answer.
ServiceSearchFails(r) ==
    /\ sv_req[r].pc = "questions"
    /\ OnLoop(r)
    /\ sv_req[r].answered < sv_req[r].asked
    /\ sv_system = "pinecone"
    /\ sv_connected
    /\ sv_trace' = Append(sv_trace, Event(r, "parse", sv_req[r].answered + 1, {}))
    /\ sv_req' = [sv_req EXCEPT ![r].answered = @ + 1]
    /\ UNCHANGED <<sv_env, sv_system, sv_faiss, sv_connected, sv_remote, sv_running, sv_last>>

\* self.vector_db.clear(); return {"answers": answers}
ServiceClearsAndReturns(r) ==
    /\ sv_req[r].pc = "questions"
    /\ OnLoop(r)
    /\ sv_req[r].answered = sv_req[r].asked
    /\ IF sv_system = "faiss"
       THEN sv_faiss' = FaissClear(sv_faiss) /\ sv_remote' = sv_remote
       ELSE sv_faiss' = sv_faiss /\ sv_remote' = <<>>
    /\ UNCHANGED <<sv_env, sv_system, sv_connected, sv_last>>
    /\ sv_req' = [sv_req EXCEPT ![r].pc = "done", ![r].outcome = 200]
    /\ sv_running' = 0
    /\ sv_trace' = sv_trace \o <<Event(r, "clear", 0, {}), Event(r, "finish", 0, IndexContents')>>

\* PineconeVectorDB.clear: index.delete(delete_all=True) raises, the except
\* clause logs the error, and the request returns its answers.
ServiceClearFailsAndReturns(r) ==
    /\ sv_req[r].pc = "questions"
    /\ OnLoop(r)
    /\ sv_req[r].answered = sv_req[r].asked
    /\ sv_system = "pinecone"
    /\ sv_connected
    /\ sv_req' = [sv_req EXCEPT ![r].pc = "done", ![r].outcome = 200]
    /\ sv_running' = 0
    /\ sv_trace' = sv_trace \o <<Event(r, "clear", 0, {}), Event(r, "finish", 0, IndexContents)>>
    /\ UNCHANGED <<sv_env, sv_system, sv_faiss, sv_connected, sv_remote, sv_last>>

InitService ==
    /\ DownloadIdle
    /\ ChunkTextIdle
    /\ CreateChunksIdle
    /\ RequestIdle
    /\ sv_env \in ServiceEnvs
    /\ sv_system = "none"
    /\ sv_faiss = EmptyDb
    /\ sv_connected = FALSE
    /\ sv_remote = <<>>
    /\ sv_req \in [RequestIds -> [pc : {"queued"}, doc : DocumentNames, asked : AskedCounts,
                                  answered : {0}, outcome : {0}, failed : {"none"}]]
    /\ sv_running = 0
    /\ sv_trace = <<>>
    /\ sv_last = NoCall
    /\ FunctionIdle

NextService ==
    \/ \E r \in RequestIds : ServiceStarts(r) /\ UNCHANGED <<dlVars, ctVars, ccVars, rqVars, fnVars>>
    \/ \E r \in RequestIds :
           ServiceProcessesDocument(r) /\ UNCHANGED <<dlVars, ctVars, ccVars, rqVars, fnVars>>
    \/ \E r \in RequestIds : ServiceEmbeds(r) /\ UNCHANGED <<dlVars, ctVars, ccVars, rqVars, fnVars>>
    \/ \E r \in RequestIds :
           ServiceEmbeddingFails(r) /\ UNCHANGED <<dlVars, ctVars, ccVars, rqVars, fnVars>>
    \/ \E r \in RequestIds : ServiceIndexes(r) /\ UNCHANGED <<dlVars, ctVars, ccVars, rqVars, fnVars>>
    \/ \E r \in RequestIds :
           ServiceInitializeFails(r) /\ UNCHANGED <<dlVars, ctVars, ccVars, rqVars, fnVars>>
    \/ \E r \in RequestIds : ServiceAnswers(r) /\ UNCHANGED <<dlVars, ctVars, ccVars, rqVars, fnVars>>
    \/ \E r \in RequestIds :
           ServiceSearchFails(r) /\ UNCHANGED <<dlVars, ctVars, ccVars, rqVars, fnVars>>
    \/ \E r \in RequestIds :
           ServiceClearsAndReturns(r) /\ UNCHANGED <<dlVars, ctVars, ccVars, rqVars, fnVars>>
    \/ \E r \in RequestIds :
           ServiceClearFailsAndReturns(r) /\ UNCHANGED <<dlVars, ctVars, ccVars, rqVars, fnVars>>

SpecService == InitService /\ [][NextService]_vars

-----------------------------------------------------------------------------
(* The requests explored: questions, servers and documents.                *)

GracePeriodQuestion == <<"W", "h", "a", "t", " ", "i", "s", " ", "t", "h", "e", " ", "g", "r",
        "a", "c", "e", " ", "p", "e", "r", "i", "o", "d", " ", "f", "o", "r", " ", "t", "h",
                "e", " ", "p", "r", "e", "m", "i", "u", "m", "?">>

SurgeryQuestion == <<"I", "s", " ", "S", "u", "r", "g", "e", "r", "y", " ", "c", "o", "v",
        "e", "r", "e", "d", " ", "b", "y", " ", "t", "h", "e", " ", "p", "o", "l", "i", "c",
                "y", "?">>

\* A question without any word character.
MarksQuestion == <<"?", "?", "?">>

ShortQuestionLists ==
    { <<GracePeriodQuestion>>, <<SurgeryQuestion, GracePeriodQuestion>> }

\* The endpoint and the question list of a request: no question, one or two,
\* three through the webhook, and one more than each endpoint allows.
Requests ==
    ({"webhook", "hackrx"} \X (ShortQuestionLists \cup {<<>>}))
    \cup { <<"webhook", <<SurgeryQuestion, MarksQuestion, GracePeriodQuestion>>>>,
           <<"webhook", Rep(GracePeriodQuestion, WebhookMaxQuestions + 1)>>,
           <<"hackrx", Rep(GracePeriodQuestion, HackrxMaxQuestions + 1)>> }

Ok(body) == [exc |-> "none", status |-> 200, body |-> body]

ServerError == [exc |-> "none", status |-> 500, body |-> 5000]

NotFound == [exc |-> "none", status |-> 404, body |-> 200]

Timeout == [exc |-> "timeout", status |-> 0, body |-> 0]

Servers ==
    { <<Ok(1000)>>,
      <<ServerError, Ok(1000)>>,
      <<Timeout, NotFound, Ok(max_size + 2 * iter_chunk_size + 5)>>,
      <<ServerError, Timeout, NotFound>>,
      <<Ok(999)>>,
      <<[exc |-> "none", status |-> 300, body |-> 2000]>> }

PolicyPage ==
    <<"T", "h", "e", " ", "p", "o", "l", "i", "c", "y", " ", "c", "o", "v", "e", "r", "s",
            " ", "h", "o", "s", "p", "i", "t", "a", "l", "i", "z", "a", "t", "i", "o", "n",
                    " ", "a", "n", "d", " ", "s", "u", "r", "g", "e", "r", "y", ".">> \o <<"\n">>
    \o <<"T", "h", "e", " ", " ", "p", "r", "e", "m", "i", "u", "m", " ", "i", "s", " ", "p",
            "a", "y", "a", "b", "l", "e", " ", "y", "e", "a", "r", "l", "y",
                    ".">> \o <<"\n">> \o <<"p", ".", "1">> \o <<"\n", " ", "\n">>
    \o <<"A", " ", "g", "r", "a", "c", "e", " ", "p", "e", "r", "i", "o", "d", " ", "o", "f",
            " ", "t", "h", "i", "r", "t", "y", " ", "d", "a", "y", "s", " ", "i", "s", " ",
                    "a", "l", "l", "o", "w", "e", "d", " ", "f", "o", "r", " ", "t", "h", "e",
                            " ", "p", "r", "e", "m", "i", "u", "m", ".">> \o <<"\n">>
    \o <<"T", "h", "e", " ", "c", "l", "a", "i", "m", " ", "m", "u", "s", "t", " ", "b", "e",
            " ", "f", "i", "l", "e", "d", " ", "w", "i", "t", "h", "i", "n", " ", "n", "i",
                    "n", "e", "t", "y", " ", "d", "a", "y", "s", " ", "o", "f", " ", "d", "i",
                            "s", "c", "h", "a", "r", "g", "e", ".">> \o <<"\n">>
    \o <<"T", "h", "e", " ", "i", "n", "s", "u", "r", "e", "d", " ", "m", "a", "y", " ", "n",
            "a", "m", "e", " ", "o", "n", "e", " ", "b", "e", "n", "e", "f", "i", "c", "i",
                    "a", "r", "y", " ", "f", "o", "r", " ", "e", "a", "c", "h", " ", "b", "e",
                            "n", "e", "f", "i", "t", ".">> \o <<"\n">>
    \o <<"C", "o", "v", "e", "r", "a", "g", "e", " ", "e", "n", "d", "s", " ", "w", "h", "e",
            "n", " ", "t", "h", "e", " ", "p", "r", "e", "m", "i", "u", "m", " ", "i", "s",
                    " ", "n", "o", "t", " ", "p", "a", "i", "d", " ", "i", "n", " ", "t", "h",
                            "e", " ", "g", "r", "a", "c", "e", " ", "p", "e", "r", "i", "o",
                                    "d", ".">> \o <<"\n">>
    \o <<"E", "x", "c", "l", "u", "s", "i", "o", "n", "s", " ", "a", "r", "e", " ", "l", "i",
            "s", "t", "e", "d", " ", "i", "n", " ", "t", "h", "e", " ", "l", "a", "s", "t",
                    " ", "s", "e", "c", "t", "i", "o", "n", " ", "o", "f", " ", "t", "h", "i",
                            "s", " ", "p", "o", "l", "i", "c", "y", ".">>

ArticlePage ==
    <<"A", "r", "t", "i", "c", "l", "e", " ", "2", "1", " ", "o", "f", " ", "t", "h", "e",
            " ", "c", "o", "n", "s", "t", "i", "t", "u", "t", "i", "o", "n", " ", "p", "r",
                    "o", "t", "e", "c", "t", "s", " ", "l", "i", "f", "e", " ", "a", "n", "d",
                            " ", "p", "e", "r", "s", "o", "n", "a", "l", " ", "l", "i", "b",
                                    "e", "r", "t", "y", ".">> \o <<"\n">>
    \o <<"T", "h", "e", " ", "c", "o", "u", "r", "t", " ", "r", "e", "a", "d", "s", " ", "t",
            "h", "e", " ", "a", "r", "t", "i", "c", "l", "e", " ", "w", "i", "t", "h", " ",
                    "s", "e", "c", "t", "i", "o", "n", " ", "3", " ", "o", "f", " ", "t", "h",
                            "e", " ", "l", "a", "w", ".">>

TinyPage == <<"A", "n", "n", "e", "x", " ", "A", ".">>

BlankPage == <<" ", "\n", " ">>

Page(text) == [ok |-> TRUE, text |-> text]

FailingPage == [ok |-> FALSE, text |-> <<>>]

Reader(pages) == [opens |-> TRUE, pages |-> pages]

NoReader == [opens |-> FALSE, pages |-> <<>>]

SamePdf(reader) == [pypdf |-> reader, fitz |-> reader, partial |-> reader]

\* The number of tiny pages of the document made of tiny pages only.
TinyPages == 12

Pdfs ==
    { SamePdf(Reader(<<Page(PolicyPage), Page(BlankPage), Page(ArticlePage)>>)),
      SamePdf(Reader(<<FailingPage, Page(ArticlePage)>>)),
      [pypdf |-> NoReader, fitz |-> Reader(<<Page(ArticlePage)>>), partial |-> NoReader],
      SamePdf(Reader(<<Page(BlankPage), Page(<<>>)>>)),
      [pypdf |-> Reader(Rep(Page(TinyPage), TinyPages)), fitz |-> NoReader,
       partial |-> Reader(Rep(Page(TinyPage), TinyPages))],
      SamePdf(NoReader) }

\* What generate_content does when asked for an answer: it raises, or it
\* returns a text that is not blank.
LlmResults ==
    { [ok |-> FALSE, text |-> <<"4", "2", "9", " ", "q", "u", "o", "t", "a", " ", "e", "x",
            "c", "e", "e", "d", "e", "d">>],
      [ok |-> TRUE, text |-> <<" ">> \o <<"A", "c", "c", "o", "r", "d", "i", "n", "g", " ",
              "t", "o", " ", "t", "h", "e", " ", "p", "o", "l", "i", "c", "y", " ", "t", "h",
                      "e", " ", "g", "r", "a", "c", "e", " ", "p", "e", "r", "i", "o", "d",
                              " ", "i", "s", " ", "t", "h", "i", "r", "t", "y", " ", "d", "a",
                                      "y", "s", ".">> \o <<"\n">>],
      [ok |-> TRUE, text |-> <<"Y", "e", "s", ".">>] }

\* What generate_content does when asked to parse a question.
ParseReplies ==
    { [kind |-> "raise", key_entities |-> <<>>, entities_ok |-> TRUE,
       keywords |-> <<>>, refined_query |-> <<>>],
      [kind |-> "not_json", key_entities |-> <<>>, entities_ok |-> TRUE,
       keywords |-> <<>>, refined_query |-> <<>>],
      [kind |-> "no_intent", key_entities |-> <<>>, entities_ok |-> TRUE,
       keywords |-> <<>>, refined_query |-> <<>>],
      [kind |-> "json", key_entities |-> <<<<"g", "r", "a", "c", "e", " ", "p", "e", "r", "i",
              "o", "d">>>>, entities_ok |-> TRUE,
       keywords |-> <<<<"g", "r", "a", "c", "e">>>>, refined_query |-> <<"g", "r", "a", "c",
               "e", " ", "p", "e", "r", "i", "o", "d", " ", "p", "r", "e", "m", "i", "u", "m">>],
      [kind |-> "json", key_entities |-> <<>>, entities_ok |-> FALSE,
       keywords |-> <<>>, refined_query |-> <<>>] }

\* str(e) of the exceptions of the libraries.
EmbeddingExcText == <<"C", "U", "D", "A", " ", "o", "u", "t", " ", "o", "f", " ", "m", "e",
        "m", "o", "r", "y">>

SearchExcText == <<"F", "a", "i", "l", "e", "d", " ", "t", "o", " ", "s", "e", "a", "r", "c",
        "h", " ", "F", "A", "I", "S", "S", " ", "i", "n", "d", "e", "x", ":", " ", "b", "a",
                "d", " ", "v", "e", "c", "t", "o", "r">>

FitzExcText == <<"c", "a", "n", "n", "o", "t", " ", "o", "p", "e", "n", " ", "b", "r", "o",
        "k", "e", "n", " ", "d", "o", "c", "u", "m", "e", "n", "t">>

MemoryExcText == <<"o", "u", "t", " ", "o", "f", " ", "m", "e", "m", "o", "r", "y">>

\* str(e) of what SentenceTransformer(model_name) raises when the model cannot
\* be loaded: a connection error, or the model hub's message when the model is
\* not in the cache and look-ups are disabled.
ModelLoadExcTexts ==
    { <<"C", "o", "n", "n", "e", "c", "t", "i", "o", "n", " ", "r", "e", "s", "e", "t", " ",
      "b", "y", " ", "p", "e", "e", "r">>,
      <<"C", "a", "n", "n", "o", "t", " ", "f", "i", "n", "d", " ", "t", "h", "e", " ",
        "r", "e", "q", "u", "e", "s", "t", "e", "d", " ", "f", "i", "l", "e", "s", " ",
        "i", "n", " ", "t", "h", "e", " ", "d", "i", "s", "k", " ", "c", "a", "c", "h",
        "e", " ", "a", "n", "d", " ", "o", "u", "t", "g", "o", "i", "n", "g", " ", "t",
        "r", "a", "f", "f", "i", "c", " ", "h", "a", "s", " ", "b", "e", "e", "n", " ",
        "d", "i", "s", "a", "b", "l", "e", "d", ".", " ", "T", "o", " ", "e", "n", "a",
        "b", "l", "e", " ", "h", "f", ".", "c", "o", " ", "l", "o", "o", "k", "-", "u",
        "p", "s", " ", "a", "n", "d", " ", "d", "o", "w", "n", "l", "o", "a", "d", "s",
        " ", "o", "n", "l", "i", "n", "e", ",", " ", "s", "e", "t", " ", "'", "l", "o",
        "c", "a", "l", "_", "f", "i", "l", "e", "s", "_", "o", "n", "l", "y", "'", " ",
        "t", "o", " ", "F", "a", "l", "s", "e", ".">> }

-----------------------------------------------------------------------------
(* extract_text_from_pdf_enhanced alone, strategy by strategy,             *)
(* src/app.py:136-253.                                                     *)

\* The number of pages a strategy's loop goes through before it ends.
PagesVisited(pages, text, min_len, text_limit) ==
    PageReadLoop([text |-> text, visited |-> 0, stopped |-> FALSE], pages, min_len,
                 text_limit).visited

\* A page of one short line.
LinePage == <<"C", "l", "a", "u", "s", "e", " ", "7", " ", "a", "p", "p", "l", "i", "e", "s", ".">>

\* A page whose text starts like the sentinel.
ErrorReportPage == ErrorPrefix \o <<" ">> \o ArticlePage

\* The length of the pages of the long document.
LongPageLen == 60000

\* What a parser reads in a document: nothing (it cannot open it), one
\* ordinary page, tiny pages only, a failing and a blank page, more pages than
\* MaxPages, a text that starts with "ERROR:", and two pages that together
\* pass MaxTextLen.
ReaderOf(name) ==
    IF name = "article" THEN Reader(<<Page(ArticlePage)>>)
    ELSE IF name = "tiny" THEN Reader(Rep(Page(TinyPage), TinyPages))
    ELSE IF name = "failing" THEN Reader(<<FailingPage, Page(BlankPage)>>)
    ELSE IF name = "many" THEN Reader(Rep(Page(LinePage), MaxPages + 5))
    ELSE IF name = "error_report" THEN Reader(<<Page(ErrorReportPage)>>)
    ELSE IF name = "long"
    THEN Reader(<<Page(Rep("x", LongPageLen)), Page(Rep("y", LongPageLen)),
                  Page(ArticlePage)>>)
    ELSE NoReader

ExtractReaders == {"unreadable", "article", "tiny", "failing", "many", "error_report"}

PrefixReaders == {"unreadable", "tiny"}

PdfSizes == { PartialMinPdfSize, PartialMinPdfSize + 1, PartialPrefixSize + 1 }

\* The documents, by what each parser reads in them; the long document is
\* one only PyPDF2 can read.
ExtractCalls ==
    [fn : {"extract_text_from_pdf_enhanced"}, pypdf : ExtractReaders, fitz : ExtractReaders,
     partial : PrefixReaders, size : PdfSizes]
    \cup { [fn |-> "extract_text_from_pdf_enhanced", pypdf |-> "long", fitz |-> "unreadable",
            partial |-> "unreadable", size |-> PartialMinPdfSize + 1] }

\* The reader of the third strategy: PyPDF2 on pdf_content[:50 MB].
PrefixReader(args) ==
    IF args.size <= PartialPrefixSize THEN ReaderOf(args.pypdf) ELSE ReaderOf(args.partial)

\* Nothing returned yet: the strategies tried, the pages each went through,
\* and of the string returned its kind, its length and the strategy it is from.
NothingExtracted ==
    [tried |-> <<>>, visited |-> <<>>, returned |-> "nothing", length |-> 0, from |-> "none"]

InitExtract ==
    /\ DownloadIdle
    /\ ChunkTextIdle
    /\ CreateChunksIdle
    /\ RequestIdle
    /\ ServiceIdle
    /\ fn_pc = "called"
    /\ fn_args \in ExtractCalls
    /\ fn_out = NothingExtracted

\* One strategy has run: the function returns its cleaned text when the text
\* is usable, and goes on to next_pc when it is not or the parser raised.
StrategyRan(name, reader, max_pages, min_len, text_limit, next_pc) ==
    LET text == StrategyText(reader, max_pages, min_len, text_limit)
        seen == IF reader.opens
                THEN PagesVisited(Take(reader.pages, max_pages), <<>>, min_len, text_limit)
                ELSE 0
        usable == reader.opens /\ Usable(text)
    IN  /\ fn_out' = [tried |-> Append(fn_out.tried, name),
                      visited |-> Append(fn_out.visited, seen),
                      returned |-> IF usable THEN "text" ELSE "nothing",
                      length |-> IF usable THEN Len(Strip(clean_text(text))) ELSE 0,
                      from |-> IF usable THEN name ELSE "none"]
        /\ fn_pc' = IF usable THEN "returned" ELSE next_pc
        /\ UNCHANGED fn_args

\* The first strategy with the alternate parser tried after it whatever it
\* yielded.
ExtractPrimaryNeverReturns ==
    /\ fn_pc = "called"
    /\ fn_args.fn = "extract_text_from_pdf_enhanced"
    /\ fn_out' = [fn_out EXCEPT !.tried = Append(@, "PyPDF2"), !.visited = Append(@, 0)]
    /\ fn_pc' = "alternate"
    /\ UNCHANGED fn_args

\* First attempt with PyPDF2.
ExtractPrimary ==
    /\ fn_pc = "called"
    /\ fn_args.fn = "extract_text_from_pdf_enhanced"
    /\ StrategyRan("PyPDF2", ReaderOf(fn_args.pypdf), MaxPages, MinPageTextLen, MaxTextLen,
                   "alternate")

\* Fallback: PyMuPDF.
ExtractAlternate ==
    /\ fn_pc = "alternate"
    /\ StrategyRan("PyMuPDF", ReaderOf(fn_args.fitz), MaxPages, MinPageTextLen, MaxTextLen,
                   "partial")

\* Final attempt, if len(pdf_content) > 1000: PyPDF2 on the first 50 MB.
ExtractPartial ==
    /\ fn_pc = "partial"
    /\ fn_args.size > PartialMinPdfSize
    /\ StrategyRan("partial", PrefixReader(fn_args), PartialMaxPages, -1, PartialMaxTextLen,
                   "last_resort")

\* Last resort: return the error message, after the final attempt or without
\* it when the content has no more than 1000 bytes.
ExtractReturnsSentinel ==
    /\ \/ fn_pc = "last_resort"
       \/ fn_pc = "partial" /\ ~(fn_args.size > PartialMinPdfSize)
    /\ fn_out' = [fn_out EXCEPT !.returned = "sentinel",
                                !.length = Len(ExtractionFailedText)]
    /\ fn_pc' = "returned"
    /\ UNCHANGED fn_args

NextExtract ==
    \/ ExtractPrimary /\ UNCHANGED <<dlVars, ctVars, ccVars, rqVars, svVars>>
    \/ ExtractAlternate /\ UNCHANGED <<dlVars, ctVars, ccVars, rqVars, svVars>>
    \/ ExtractPartial /\ UNCHANGED <<dlVars, ctVars, ccVars, rqVars, svVars>>
    \/ ExtractReturnsSentinel /\ UNCHANGED <<dlVars, ctVars, ccVars, rqVars, svVars>>

SpecExtract == InitExtract /\ [][NextExtract]_vars

-----------------------------------------------------------------------------
(* LLMQueryProcessor.parse_query alone, statement by statement:             *)
(* src/src/components/llm_query_processor.py:35-96.                         *)

\* The keys the prompt asks the model to answer with.
ParseKeys == {"intent", "key_entities", "keywords", "query_type", "refined_query"}

\* What generate_content and response.text give for one prompt: an
\* exception, or a text, of which json.loads matters: whether it decodes,
\* the type of the value it decodes to, and for an object its keys and the
\* value under "intent".
ParseContents ==
    { [kind |-> "raise", decodes |-> FALSE, type |-> "none", keys |-> {}, intent |-> "none"],
      [kind |-> "text", decodes |-> FALSE, type |-> "none", keys |-> {}, intent |-> "none"] }
    \cup [kind : {"text"}, decodes : {TRUE}, type : {"array", "string", "number", "null"},
          keys : {{}}, intent : {"none"}]
    \cup { c \in [kind : {"text"}, decodes : {TRUE}, type : {"object"}, keys : SUBSET ParseKeys,
                  intent : {"none", "other", "waiting_period"}] :
             (c.intent = "none") <=> ("intent" \notin c.keys) }

\* A question with runs of whitespace and upper-case letters.
SpacedQuestion == <<" ", "I", "s", " ", " ", "D", "E", "N", "T", "A", "L", "\t", "c", "l", "a",
        "i", "m", "\n", "C", "o", "v", "e", "r", "e", "d", "?", " ">>

ParseQueries == {GracePeriodQuestion, SurgeryQuestion, MarksQuestion, SpacedQuestion, <<" ">>, <<>>}

InitParseQuery ==
    /\ DownloadIdle
    /\ ChunkTextIdle
    /\ CreateChunksIdle
    /\ RequestIdle
    /\ ServiceIdle
    /\ fn_pc = "generate"
    /\ fn_args \in [fn : {"parse_query"}, query : ParseQueries, llm : ParseContents]
    /\ fn_out = [returned |-> "nothing", parsed_query |-> <<>>]

\* The fallback dict, built in an except clause; word[0] of a word of
\* query.split() that were empty would raise out of the method.
ParseQueryFallback(query, entities) ==
    IF \E k \in DOMAIN SplitWords(query) : SplitWords(query)[k] = <<>>
    THEN [raises |-> TRUE, value |-> <<>>]
    ELSE [raises |-> FALSE, value |-> FallbackParse(query, entities)]

\* response = self.client.generate_content(...); content = response.text.strip()
ParseQueryGenerates ==
    /\ fn_pc = "generate"
    /\ fn_pc' = IF fn_args.llm.kind = "raise" THEN "except" ELSE "loads"
    /\ UNCHANGED <<fn_args, fn_out>>

\* parsed_query = json.loads(content), with the fallback dict on a
\* JSONDecodeError.
ParseQueryLoads ==
    /\ fn_pc = "loads"
    /\ IF fn_args.llm.decodes
       THEN /\ fn_out' = [fn_out EXCEPT !.parsed_query = fn_args.llm]
            /\ fn_pc' = "log"
       ELSE \E entities \in Orderings(ExtractEntitiesFallback(fn_args.query)) :
              LET fallback == ParseQueryFallback(fn_args.query, entities)
              IN  /\ fn_out' = [fn_out EXCEPT !.parsed_query = fallback.value]
                  /\ fn_pc' = IF fallback.raises THEN "except" ELSE "log"
    /\ UNCHANGED fn_args

\* The method returning parsed_query without the logger line that reads
\* parsed_query['intent'].
ParseQueryReturnsUnread ==
    /\ fn_pc = "log"
    /\ fn_out' = [fn_out EXCEPT !.returned = "parsed_query"]
    /\ fn_pc' = "returned"
    /\ UNCHANGED fn_args

\* logger.info(f"Parsed query: {parsed_query['intent']}"); return parsed_query.
\* The subscript raises a KeyError on a dict without the key and a TypeError
\* on a list, a string, a number and None.
ParseQueryLogsAndReturns ==
    /\ fn_pc = "log"
    /\ LET parsed_query == fn_out.parsed_query
           has_intent == IF "fallback" \in DOMAIN parsed_query THEN TRUE
                         ELSE parsed_query.type = "object" /\ "intent" \in parsed_query.keys
       IN  IF has_intent
           THEN /\ fn_out' = [fn_out EXCEPT !.returned = "parsed_query"]
                /\ fn_pc' = "returned"
           ELSE /\ fn_pc' = "except"
                /\ UNCHANGED fn_out
    /\ UNCHANGED fn_args

\* except Exception as e: return the fallback dict.
ParseQueryExcept ==
    /\ fn_pc = "except"
    /\ \E entities \in Orderings(ExtractEntitiesFallback(fn_args.query)) :
         LET fallback == ParseQueryFallback(fn_args.query, entities)
         IN  /\ fn_out' = [returned |-> IF fallback.raises THEN "nothing" ELSE "parsed_query",
                           parsed_query |-> fallback.value]
             /\ fn_pc' = IF fallback.raises THEN "raised" ELSE "returned"
    /\ UNCHANGED fn_args

NextParseQuery ==
    \/ ParseQueryGenerates /\ UNCHANGED <<dlVars, ctVars, ccVars, rqVars, svVars>>
    \/ ParseQueryLoads /\ UNCHANGED <<dlVars, ctVars, ccVars, rqVars, svVars>>
    \/ ParseQueryLogsAndReturns /\ UNCHANGED <<dlVars, ctVars, ccVars, rqVars, svVars>>
    \/ ParseQueryExcept /\ UNCHANGED <<dlVars, ctVars, ccVars, rqVars, svVars>>

SpecParseQuery == InitParseQuery /\ [][NextParseQuery]_vars

-----------------------------------------------------------------------------
(* find_relevant_chunks alone, and the context made of its result:          *)
(* src/app.py:321-343, 403-408.                                             *)

PremiumChunk == <<"T", "h", "e", " ", "p", "r", "e", "m", "i", "u", "m", " ", "i", "s", " ",
        "d", "u", "e", ".">>

GraceChunk == <<"G", "r", "a", "c", "e", " ", "p", "e", "r", "i", "o", "d", ":", " ", "3", "0",
        " ", "d", "a", "y", "s", ".">>

GracefulChunk == <<"A", " ", "g", "r", "a", "c", "e", "f", "u", "l", " ", "p", "e", "r", "i",
        "o", "d", ".">>

OtherChunk == <<"N", "o", " ", "c", "l", "a", "i", "m", "s", ".">>

RelevantChunkTexts == {PremiumChunk, GraceChunk, GracefulChunk, OtherChunk}

\* The most chunks in a list handed to find_relevant_chunks.
MaxListed == 3

ChunkLists == UNION { [1..n -> RelevantChunkTexts] : n \in 0..MaxListed }

\* The max_chunks arguments: none, fewer than the chunks, the default.
MaxChunksArgs == {0, 1, 2, DefaultMaxChunks}

InitRelevant ==
    /\ DownloadIdle
    /\ ChunkTextIdle
    /\ CreateChunksIdle
    /\ RequestIdle
    /\ ServiceIdle
    /\ fn_pc = "rank"
    /\ fn_args \in [fn : {"find_relevant_chunks"}, chunks : ChunkLists,
                    question : {GracePeriodQuestion, MarksQuestion},
                    max_chunks : MaxChunksArgs]
    /\ fn_out = [relevant_chunks |-> <<>>, context_text |-> <<>>]

\* relevant_chunks = find_relevant_chunks(chunks, question, max_chunks)
FindRelevantReturns ==
    /\ fn_pc = "rank"
    /\ fn_out' = [fn_out EXCEPT !.relevant_chunks =
                     find_relevant_chunks(fn_args.chunks, fn_args.question,
                                          fn_args.max_chunks)]
    /\ fn_pc' = "returned"
    /\ UNCHANGED fn_args

\* context_text = "\n\n".join(relevant_chunks[:3])
ContextJoined ==
    /\ fn_pc = "returned"
    /\ fn_out' = [fn_out EXCEPT !.context_text =
                     Join(<<"\n", "\n">>, Take(fn_out.relevant_chunks, ContextChunks))]
    /\ fn_pc' = "joined"
    /\ UNCHANGED fn_args

NextRelevant ==
    \/ FindRelevantReturns /\ UNCHANGED <<dlVars, ctVars, ccVars, rqVars, svVars>>
    \/ ContextJoined /\ UNCHANGED <<dlVars, ctVars, ccVars, rqVars, svVars>>

SpecRelevant == InitRelevant /\ [][NextRelevant]_vars

-----------------------------------------------------------------------------
(* POST /api/v1/webhook/test: webhook_test, src/app.py:503-606.            *)

InitRequest ==
    /\ DownloadIdle
    /\ ChunkTextIdle
    /\ CreateChunksIdle
    /\ ServiceIdle
    /\ FunctionIdle
    /\ \E rq \in Requests :
        /\ endpoint = rq[1]
        /\ questions = rq[2]
    /\ server \in Servers
    /\ pdf \in Pdfs
    /\ rq_pc = "start"
    /\ pdf_size = 0
    /\ document_text = <<>>
    /\ rq_doc_type = "none"
    /\ rq_pages_content = <<>>
    /\ rq_chunks = <<>>
    /\ embedded = <<>>
    /\ vector_db = EmptyDb
    /\ answers = <<>>
    /\ confidence_scores = <<>>
    /\ q_log = <<>>
    /\ llm_calls = 0
    /\ response = NoResponse

\* The handler ends: the caller receives r.
Respond(r) ==
    /\ response' = r
    /\ rq_pc' = "done"

\* if not request.questions: raise HTTPException(400)
WebhookRejectsNoQuestions ==
    /\ endpoint = "webhook"
    /\ rq_pc = "start"
    /\ questions = <<>>
    /\ Respond(HttpError(400, <<"At least one question is required">>, "rejected"))
    /\ UNCHANGED <<dlVars, endpoint, questions, server, pdf, pdf_size, document_text,
                   rq_doc_type, rq_pages_content, rq_chunks, embedded, vector_db,
                   answers, confidence_scores, q_log, llm_calls>>

\* if len(request.questions) > 10: raise HTTPException(400)
WebhookRejectsTooManyQuestions ==
    /\ endpoint = "webhook"
    /\ rq_pc = "start"
    /\ questions # <<>>
    /\ Len(questions) > WebhookMaxQuestions
    /\ Respond(HttpError(400, <<"Maximum 10 questions allowed per request">>, "rejected"))
    /\ UNCHANGED <<dlVars, endpoint, questions, server, pdf, pdf_size, document_text,
                   rq_doc_type, rq_pages_content, rq_chunks, embedded, vector_db,
                   answers, confidence_scores, q_log, llm_calls>>

\* pdf_content = download_pdf_with_retry(request.documents): the call.
WebhookCallsDownload ==
    /\ endpoint = "webhook"
    /\ rq_pc = "start"
    /\ questions # <<>>
    /\ Len(questions) <= WebhookMaxQuestions
    /\ DownloadCall(DefaultMaxRetries)
    /\ rq_pc' = "download"
    /\ UNCHANGED <<endpoint, questions, server, pdf, pdf_size, document_text,
                   rq_doc_type, rq_pages_content, rq_chunks, embedded, vector_db,
                   answers, confidence_scores, q_log, llm_calls, response>>

\* An attempt of the fetcher fails and another follows.
WebhookDownloadRetries ==
    /\ endpoint = "webhook"
    /\ rq_pc = "download"
    /\ DownloadAttemptRetries
    /\ dl_log' = Append(dl_log, ServerResponse(attempt))
    /\ UNCHANGED rqVars

\* An attempt of the fetcher returns the content.
WebhookDownloadReturns ==
    /\ endpoint = "webhook"
    /\ rq_pc = "download"
    /\ DownloadAttemptReturns
    /\ dl_log' = Append(dl_log, ServerResponse(attempt))
    /\ pdf_size' = dl_result'.size
    /\ rq_pc' = "extract"
    /\ UNCHANGED <<endpoint, questions, server, pdf, document_text,
                   rq_doc_type, rq_pages_content, rq_chunks, embedded, vector_db,
                   answers, confidence_scores, q_log, llm_calls, response>>

\* The last attempt fails: the fetcher's HTTPException(400) is raised again
\* by `except HTTPException as e: raise e` and by `except HTTPException: raise`.
WebhookDownloadRaises ==
    /\ endpoint = "webhook"
    /\ rq_pc = "download"
    /\ DownloadAttemptRaises
    /\ dl_log' = Append(dl_log, ServerResponse(attempt))
    /\ Respond(HttpError(400,
                         <<"Failed to download PDF after ">> \o ToStr(max_retries)
                         \o <<" attempts. The document may be too large or temporarily unavailable.">>,
                         "download_failed"))
    /\ UNCHANGED <<endpoint, questions, server, pdf, pdf_size, document_text,
                   rq_doc_type, rq_pages_content, rq_chunks, embedded, vector_db,
                   answers, confidence_scores, q_log, llm_calls>>

\* document_text = extract_text_from_pdf_enhanced(pdf_content), usable.
WebhookExtracts ==
    /\ endpoint = "webhook"
    /\ rq_pc = "extract"
    /\ ~ExtractionFailed(extract_text_from_pdf_enhanced(pdf, pdf_size))
    /\ document_text' = extract_text_from_pdf_enhanced(pdf, pdf_size)
    /\ rq_pc' = "detect"
    /\ UNCHANGED <<dlVars, endpoint, questions, server, pdf, pdf_size,
                   rq_doc_type, rq_pages_content, rq_chunks, embedded, vector_db,
                   answers, confidence_scores, q_log, llm_calls, response>>

\* The extraction returned nothing or an "ERROR:" text: one and the same
\* answer for every question, success=False.
WebhookExtractionFailed ==
    /\ endpoint = "webhook"
    /\ rq_pc = "extract"
    /\ ExtractionFailed(extract_text_from_pdf_enhanced(pdf, pdf_size))
    /\ document_text' = extract_text_from_pdf_enhanced(pdf, pdf_size)
    /\ answers' = Rep(UnableToProcessDocument(document_text'), Len(questions))
    /\ confidence_scores' = Rep(ZeroConfidence, Len(questions))
    /\ Respond(ResponseBody(answers', FALSE, confidence_scores', "extraction_failed"))
    /\ UNCHANGED <<dlVars, endpoint, questions, server, pdf, pdf_size,
                   rq_doc_type, rq_pages_content, rq_chunks, embedded, vector_db,
                   q_log, llm_calls>>

\* doc_type = detect_document_type(document_text)
WebhookDetectsType ==
    /\ endpoint = "webhook"
    /\ rq_pc = "detect"
    /\ rq_doc_type' = detect_document_type(document_text)
    /\ rq_pc' = "questions"
    /\ UNCHANGED <<dlVars, endpoint, questions, server, pdf, pdf_size, document_text,
                   rq_pages_content, rq_chunks, embedded, vector_db,
                   answers, confidence_scores, q_log, llm_calls, response>>

\* One iteration of `for i, question in enumerate(request.questions)`.
WebhookAnswersQuestion ==
    /\ endpoint = "webhook"
    /\ rq_pc = "questions"
    /\ Len(answers) < Len(questions)
    /\ \E llm \in LlmResults :
        LET result == process_question_with_enhanced_gemini(
                          document_text, questions[Len(answers) + 1], rq_doc_type, llm)
        IN  /\ answers' = Append(answers, result.answer)
            /\ confidence_scores' = Append(confidence_scores, result.confidence)
            /\ q_log' = Append(q_log, LogEntry(questions[Len(answers) + 1], result.failed, FALSE, llm, <<>>, <<>>))
    /\ llm_calls' = llm_calls + 1
    /\ UNCHANGED <<dlVars, endpoint, questions, server, pdf, rq_pc, pdf_size,
                   document_text, rq_doc_type, rq_pages_content, rq_chunks, embedded,
                   vector_db, response>>

\* The loop is over: return QueryResponse(answers=answers, success=True, ...)
WebhookReturns ==
    /\ endpoint = "webhook"
    /\ rq_pc = "questions"
    /\ Len(answers) = Len(questions)
    /\ Respond(ResponseBody(answers, TRUE, confidence_scores, "normal"))
    /\ UNCHANGED <<dlVars, endpoint, questions, server, pdf, pdf_size, document_text,
                   rq_doc_type, rq_pages_content, rq_chunks, embedded, vector_db,
                   answers, confidence_scores, q_log, llm_calls>>

\* `except Exception as e` of webhook_test: an exception that is not an
\* HTTPException leaves the try block outside the helpers that catch their
\* own (a MemoryError while the text is lower-cased or an answer appended):
\* the response has one answer whatever the number of questions.
WebhookUnexpectedError ==
    /\ endpoint = "webhook"
    /\ rq_pc \in {"detect", "questions"}
    /\ Respond(ResponseBody(<<TechnicalErrorAnswer(MemoryExcText)>>, FALSE,
                            <<ZeroConfidence>>, "unexpected"))
    /\ UNCHANGED <<dlVars, endpoint, questions, server, pdf, pdf_size, document_text,
                   rq_doc_type, rq_pages_content, rq_chunks, embedded, vector_db,
                   answers, confidence_scores, q_log, llm_calls>>

-----------------------------------------------------------------------------
(* POST /api/v1/hackrx/run: process_query, src/src/api/endpoints.py:65-133, *)
(* and QueryRetrievalSystem, src/src/components/query_retrieval_system.py.  *)

\* QueryRequest.questions has min_items=1: the framework answers 422 to an
\* empty list before process_query runs.
HackrxRejectsNoQuestions ==
    /\ endpoint = "hackrx"
    /\ rq_pc = "start"
    /\ questions = <<>>
    /\ Respond(HttpError(422, <<"ensure this value has at least 1 items">>, "rejected"))
    /\ UNCHANGED <<dlVars, endpoint, questions, server, pdf, pdf_size, document_text,
                   rq_doc_type, rq_pages_content, rq_chunks, embedded, vector_db,
                   answers, confidence_scores, q_log, llm_calls>>

\* if len(request.questions) > 20: raise HTTPException(400)
HackrxRejectsTooManyQuestions ==
    /\ endpoint = "hackrx"
    /\ rq_pc = "start"
    /\ Len(questions) > HackrxMaxQuestions
    /\ Respond(HttpError(400, <<"Maximum 20 questions allowed per request">>, "rejected"))
    /\ UNCHANGED <<dlVars, endpoint, questions, server, pdf, pdf_size, document_text,
                   rq_doc_type, rq_pages_content, rq_chunks, embedded, vector_db,
                   answers, confidence_scores, q_log, llm_calls>>

\* system = get_query_system(): the first request builds the global
\* QueryRetrievalSystem, and EmbeddingGenerator.__init__ raises when the
\* embedding model cannot be loaded.
HackrxConstructionFails ==
    /\ endpoint = "hackrx"
    /\ rq_pc = "start"
    /\ questions # <<>>
    /\ Len(questions) <= HackrxMaxQuestions
    /\ \E exc_text \in ModelLoadExcTexts :
        Respond(ErrorResponseFor(FailedToLoadModel(exc_text), "construct_failed"))
    /\ UNCHANGED <<dlVars, endpoint, questions, server, pdf, pdf_size, document_text,
                   rq_doc_type, rq_pages_content, rq_chunks, embedded, vector_db,
                   answers, confidence_scores, q_log, llm_calls>>

\* PDFProcessor.download_pdf: one requests.get, raise_for_status, the content.
HackrxDownloads ==
    /\ endpoint = "hackrx"
    /\ rq_pc = "start"
    /\ questions # <<>>
    /\ Len(questions) <= HackrxMaxQuestions
    /\ ServerResponse(0).exc = "none"
    /\ ~RaiseForStatus(ServerResponse(0))
    /\ pdf_size' = ServerResponse(0).body
    /\ rq_pc' = "extract"
    /\ UNCHANGED <<dlVars, endpoint, questions, server, pdf, document_text,
                   rq_doc_type, rq_pages_content, rq_chunks, embedded, vector_db,
                   answers, confidence_scores, q_log, llm_calls, response>>

\* download_pdf raises; process_document_and_questions wraps the message and
\* process_query turns it into an HTTPException.
HackrxDownloadFails ==
    /\ endpoint = "hackrx"
    /\ rq_pc = "start"
    /\ questions # <<>>
    /\ Len(questions) <= HackrxMaxQuestions
    /\ ServerResponse(0).exc # "none" \/ RaiseForStatus(ServerResponse(0))
    /\ Respond(ErrorResponseFor(
                   DocumentProcessingFailed(FailedToDownloadPdf(ExcText(ServerResponse(0)))),
                   "download_failed"))
    /\ UNCHANGED <<dlVars, endpoint, questions, server, pdf, pdf_size, document_text,
                   rq_doc_type, rq_pages_content, rq_chunks, embedded, vector_db,
                   answers, confidence_scores, q_log, llm_calls>>

\* extract_text_from_pdf reads every page with PyMuPDF.
HackrxExtracts ==
    /\ endpoint = "hackrx"
    /\ rq_pc = "extract"
    /\ pdf.fitz.opens
    /\ \A i \in DOMAIN pdf.fitz.pages : pdf.fitz.pages[i].ok
    /\ rq_pages_content' =
           ExtractPages([i \in DOMAIN pdf.fitz.pages |-> pdf.fitz.pages[i].text], 0)
    /\ rq_pc' = "chunk"
    /\ UNCHANGED <<dlVars, endpoint, questions, server, pdf, pdf_size, document_text,
                   rq_doc_type, rq_chunks, embedded, vector_db,
                   answers, confidence_scores, q_log, llm_calls, response>>

\* fitz.open or a page raises: "Failed to extract text from PDF: ...".
HackrxExtractFails ==
    /\ endpoint = "hackrx"
    /\ rq_pc = "extract"
    /\ ~pdf.fitz.opens \/ \E i \in DOMAIN pdf.fitz.pages : ~pdf.fitz.pages[i].ok
    /\ Respond(ErrorResponseFor(
                   DocumentProcessingFailed(FailedToExtractText(FitzExcText)),
                   "extract_failed"))
    /\ UNCHANGED <<dlVars, endpoint, questions, server, pdf, pdf_size, document_text,
                   rq_doc_type, rq_pages_content, rq_chunks, embedded, vector_db,
                   answers, confidence_scores, q_log, llm_calls>>

\* chunks = self.create_chunks(pages_content), not empty.
HackrxChunks ==
    /\ endpoint = "hackrx"
    /\ rq_pc = "chunk"
    /\ create_chunks(rq_pages_content, ConfigChunkSize, ConfigChunkOverlap) # <<>>
    /\ rq_chunks' = create_chunks(rq_pages_content, ConfigChunkSize, ConfigChunkOverlap)
    /\ rq_pc' = "embed"
    /\ UNCHANGED <<dlVars, endpoint, questions, server, pdf, pdf_size, document_text,
                   rq_doc_type, rq_pages_content, embedded, vector_db,
                   answers, confidence_scores, q_log, llm_calls, response>>

\* if not chunks: raise Exception("No content extracted from document")
HackrxNoContent ==
    /\ endpoint = "hackrx"
    /\ rq_pc = "chunk"
    /\ create_chunks(rq_pages_content, ConfigChunkSize, ConfigChunkOverlap) = <<>>
    /\ Respond(ErrorResponseFor(DocumentProcessingFailed(NoContentExtracted), "no_content"))
    /\ UNCHANGED <<dlVars, endpoint, questions, server, pdf, pdf_size, document_text,
                   rq_doc_type, rq_pages_content, rq_chunks, embedded, vector_db,
                   answers, confidence_scores, q_log, llm_calls>>

\* chunks_with_embeddings = process_chunks_for_embedding(chunks), then
\* vector_db.initialize(dimension) and vector_db.add_chunks(...).
HackrxIndexes ==
    /\ endpoint = "hackrx"
    /\ rq_pc = "embed"
    /\ embedded' = process_chunks_for_embedding(rq_chunks)
    /\ vector_db' = FaissAddChunks(FaissInitialize(vector_db, EmbeddingDim), embedded')
    /\ rq_pc' = "questions"
    /\ UNCHANGED <<dlVars, endpoint, questions, server, pdf, pdf_size, document_text,
                   rq_doc_type, rq_pages_content, rq_chunks,
                   answers, confidence_scores, q_log, llm_calls, response>>

\* self.model.encode raises while the chunks are embedded.
HackrxEmbeddingFails ==
    /\ endpoint = "hackrx"
    /\ rq_pc = "embed"
    /\ Respond(ErrorResponseFor(DocumentProcessingFailed(FailedToEmbed(EmbeddingExcText)),
                                "embed_failed"))
    /\ UNCHANGED <<dlVars, endpoint, questions, server, pdf, pdf_size, document_text,
                   rq_doc_type, rq_pages_content, rq_chunks, embedded, vector_db,
                   answers, confidence_scores, q_log, llm_calls>>

\* The question the loop is at.
CurrentQuestion == questions[Len(answers) + 1]

\* The query _answer_single_question embeds, given the reply to parse_query.
EnhancedQuery(reply, entities) ==
    EnhanceQueryForSearch(CurrentQuestion, parse_query(CurrentQuestion, reply, entities))

\* _answer_single_question: generate_query_embedding raises.
HackrxQuestionEmbeddingFails ==
    /\ endpoint = "hackrx"
    /\ rq_pc = "questions"
    /\ Len(answers) < Len(questions)
    /\ \E reply \in ParseReplies :
        /\ answers' = Append(answers,
               QuestionErrorAnswer(<<"F", "a", "i", "l", "e", "d", " ", "t", "o", " ", "g",
                       "e", "n", "e", "r", "a", "t", "e", " ", "q", "u", "e", "r", "y", " ",
                               "e", "m", "b", "e", "d", "d", "i", "n", "g", ":",
                                       " ">> \o EmbeddingExcText))
        /\ q_log' = Append(q_log, LogEntry(CurrentQuestion, "embed", reply.kind # "json", NoLlm, <<>>, <<>>))
    /\ llm_calls' = llm_calls + 1
    /\ UNCHANGED <<dlVars, endpoint, questions, server, pdf, rq_pc, pdf_size,
                   document_text, rq_doc_type, rq_pages_content, rq_chunks, embedded,
                   vector_db, confidence_scores, response>>

\* _answer_single_question: search_similar_chunks raises.
HackrxQuestionSearchFails ==
    /\ endpoint = "hackrx"
    /\ rq_pc = "questions"
    /\ Len(answers) < Len(questions)
    /\ \E reply \in ParseReplies :
       \E entities \in Orderings(ExtractEntitiesFallback(CurrentQuestion)) :
        /\ answers' = Append(answers, QuestionErrorAnswer(SearchExcText))
        /\ q_log' = Append(q_log, LogEntry(CurrentQuestion, "search", reply.kind # "json", NoLlm, <<>>,
                                           Embed(EnhancedQuery(reply, entities))))
    /\ llm_calls' = llm_calls + 1
    /\ UNCHANGED <<dlVars, endpoint, questions, server, pdf, rq_pc, pdf_size,
                   document_text, rq_doc_type, rq_pages_content, rq_chunks, embedded,
                   vector_db, confidence_scores, response>>

\* _answer_single_question: parse, enhance, embed and search succeed; the
\* answer is that of evaluate_retrieved_content, or the fixed sentence when
\* the search found nothing.
HackrxAnswersQuestion ==
    /\ endpoint = "hackrx"
    /\ rq_pc = "questions"
    /\ Len(answers) < Len(questions)
    /\ \E reply \in ParseReplies :
       \E entities \in Orderings(ExtractEntitiesFallback(CurrentQuestion)) :
       \E retrieved \in FaissSearch(vector_db, Embed(EnhancedQuery(reply, entities)), SearchTopK) :
       \E llm \in LlmResults :
        IF retrieved = <<>>
        THEN /\ answers' = Append(answers, NoInformationAnswer)
             /\ q_log' = Append(q_log, LogEntry(CurrentQuestion, "none", reply.kind # "json", NoLlm,
                                                <<>>,
                                                Embed(EnhancedQuery(reply, entities))))
             /\ llm_calls' = llm_calls + 1
        ELSE /\ answers' = Append(answers, evaluate_retrieved_content(retrieved, llm))
             /\ q_log' = Append(q_log,
                    LogEntry(CurrentQuestion, IF llm.ok THEN "none" ELSE "evaluate",
                             reply.kind # "json",
                             llm, retrieved, Embed(EnhancedQuery(reply, entities))))
             /\ llm_calls' = llm_calls + 2
    /\ UNCHANGED <<dlVars, endpoint, questions, server, pdf, rq_pc, pdf_size,
                   document_text, rq_doc_type, rq_pages_content, rq_chunks, embedded,
                   vector_db, confidence_scores, response>>

\* The loop is over: self.vector_db.clear(), return {"answers": answers}.
HackrxReturns ==
    /\ endpoint = "hackrx"
    /\ rq_pc = "questions"
    /\ Len(answers) = Len(questions)
    /\ vector_db' = FaissClear(vector_db)
    /\ Respond(ResponseBody(answers, TRUE, <<>>, "normal"))
    /\ UNCHANGED <<dlVars, endpoint, questions, server, pdf, pdf_size, document_text,
                   rq_doc_type, rq_pages_content, rq_chunks, embedded,
                   answers, confidence_scores, q_log, llm_calls>>

NextRequest ==
    \/ WebhookRejectsNoQuestions /\ UNCHANGED <<ctVars, ccVars, svVars, fnVars>>
    \/ WebhookRejectsTooManyQuestions /\ UNCHANGED <<ctVars, ccVars, svVars, fnVars>>
    \/ WebhookCallsDownload /\ UNCHANGED <<ctVars, ccVars, svVars, fnVars>>
    \/ WebhookDownloadRetries /\ UNCHANGED <<ctVars, ccVars, svVars, fnVars>>
    \/ WebhookDownloadReturns /\ UNCHANGED <<ctVars, ccVars, svVars, fnVars>>
    \/ WebhookDownloadRaises /\ UNCHANGED <<ctVars, ccVars, svVars, fnVars>>
    \/ WebhookExtracts /\ UNCHANGED <<ctVars, ccVars, svVars, fnVars>>
    \/ WebhookExtractionFailed /\ UNCHANGED <<ctVars, ccVars, svVars, fnVars>>
    \/ WebhookDetectsType /\ UNCHANGED <<ctVars, ccVars, svVars, fnVars>>
    \/ WebhookAnswersQuestion /\ UNCHANGED <<ctVars, ccVars, svVars, fnVars>>
    \/ WebhookReturns /\ UNCHANGED <<ctVars, ccVars, svVars, fnVars>>
    \/ WebhookUnexpectedError /\ UNCHANGED <<ctVars, ccVars, svVars, fnVars>>
    \/ HackrxRejectsNoQuestions /\ UNCHANGED <<ctVars, ccVars, svVars, fnVars>>
    \/ HackrxRejectsTooManyQuestions /\ UNCHANGED <<ctVars, ccVars, svVars, fnVars>>
    \/ HackrxConstructionFails /\ UNCHANGED <<ctVars, ccVars, svVars, fnVars>>
    \/ HackrxDownloads /\ UNCHANGED <<ctVars, ccVars, svVars, fnVars>>
    \/ HackrxDownloadFails /\ UNCHANGED <<ctVars, ccVars, svVars, fnVars>>
    \/ HackrxExtracts /\ UNCHANGED <<ctVars, ccVars, svVars, fnVars>>
    \/ HackrxExtractFails /\ UNCHANGED <<ctVars, ccVars, svVars, fnVars>>
    \/ HackrxChunks /\ UNCHANGED <<ctVars, ccVars, svVars, fnVars>>
    \/ HackrxNoContent /\ UNCHANGED <<ctVars, ccVars, svVars, fnVars>>
    \/ HackrxIndexes /\ UNCHANGED <<ctVars, ccVars, svVars, fnVars>>
    \/ HackrxEmbeddingFails /\ UNCHANGED <<ctVars, ccVars, svVars, fnVars>>
    \/ HackrxQuestionEmbeddingFails /\ UNCHANGED <<ctVars, ccVars, svVars, fnVars>>
    \/ HackrxQuestionSearchFails /\ UNCHANGED <<ctVars, ccVars, svVars, fnVars>>
    \/ HackrxAnswersQuestion /\ UNCHANGED <<ctVars, ccVars, svVars, fnVars>>
    \/ HackrxReturns /\ UNCHANGED <<ctVars, ccVars, svVars, fnVars>>

SpecRequest == InitRequest /\ [][NextRequest]_vars

-----------------------------------------------------------------------------
(* Properties of chunk_text_intelligently. *)

\* Every segment of the split text is longer than max_chunk_size, so every
\* one of them went through the hard split.
AllSegmentsOversized ==
    /\ ct_chunks # <<>>
    /\ \A i \in DOMAIN ct_chunks : Len(ct_chunks[i]) > ct_max

\* The positions of final_chunks whose stripped text is longer than 50.
KeptPositions == {i \in DOMAIN ct_final : Len(Strip(ct_final[i])) > MinChunkLen}

\* The n-th smallest element of a set of positions.
NthOf(ps, n) == CHOOSE p \in ps : Cardinality({q \in ps : q <= p}) = n

\* C8: every chunk chunk_text_intelligently returns is at most
\* max_chunk_size long and has more than 50 characters once stripped, for
\* every text, document type and max_chunk_size.
C8_ChunksWithinBounds ==
    ct_pc = "returned" =>
        \A i \in DOMAIN ct_out :
            /\ Len(ct_out[i]) <= ct_max
            /\ Len(Strip(ct_out[i])) > MinChunkLen

\* A call that returned a hard-split slice and a stripped segment.
C8_Witness ==
    /\ ct_pc = "returned"
    /\ Len(ct_out) >= 2
    /\ \E i \in DOMAIN ct_chunks : Len(ct_chunks[i]) > ct_max
    /\ \E i \in DOMAIN ct_chunks :
          /\ Len(ct_chunks[i]) <= ct_max
          /\ Strip(ct_chunks[i]) # ct_chunks[i]
          /\ \E j \in DOMAIN ct_out : ct_out[j] = Strip(ct_chunks[i])

\* C10 as stated: the chunks returned for segments longer than
\* max_chunk_size are at most max_chunk_size long and their concatenation, in
\* order, is the segments' text; 9,000 characters at 4,000 give 3 chunks or more.
C10_SlicesCoverSegment ==
    (ct_pc = "returned" /\ AllSegmentsOversized) =>
        /\ \A i \in DOMAIN ct_out : Len(ct_out[i]) <= ct_max
        /\ Concat(ct_out) = Concat(ct_chunks)
        /\ (ct_text = LongParagraph /\ ct_max = DefaultMaxChunkSize) => Len(ct_out) >= 3

\* C10 as amended: the hard split cuts each oversized segment into slices of
\* exactly max_chunk_size characters and a shorter last one, whose
\* concatenation in order is the segment; the chunks returned are those
\* slices whose stripped text is longer than 50 characters, in order, the
\* others being dropped; 9,000 non-blank characters at 4,000 give 3 chunks.
C10_SlicesCoverBeforeFilter ==
    (ct_pc = "returned" /\ AllSegmentsOversized) =>
        /\ \A i \in DOMAIN ct_final : Len(ct_final[i]) <= ct_max
        /\ Concat(ct_final) = Concat(ct_chunks)
        /\ (Len(ct_chunks) = 1 =>
              \A i \in DOMAIN ct_final : i < Len(ct_final) => Len(ct_final[i]) = ct_max)
        /\ Len(ct_out) = Cardinality(KeptPositions)
        /\ \A n \in DOMAIN ct_out : ct_out[n] = ct_final[NthOf(KeptPositions, n)]
        /\ (ct_text = LongParagraph /\ ct_max = DefaultMaxChunkSize) => Len(ct_out) = 3

\* An oversized segment whose last slice was dropped as too short.
C10_Witness ==
    /\ ct_pc = "returned"
    /\ AllSegmentsOversized
    /\ ct_out # <<>>
    /\ Len(ct_out) < Len(ct_final)

-----------------------------------------------------------------------------
(* Properties of download_pdf_with_retry. *)

DownloadFinished == dl_pc \in {"returned", "raised", "fell_through"}

AllAttemptsFailed == \A i \in DOMAIN dl_log : ~AttemptSucceeds(dl_log[i])

\* A response whose status is not 2xx, or whose body has fewer than 1000 bytes.
SmallOrNon2xx(r) ==
    /\ r.exc = "none"
    /\ (r.status < 200 \/ r.status > 299 \/ r.body < MinPdfSize)

\* C6: at most max_retries attempts are made; a return hands back the
\* content of the first successful attempt, which is the last one made; the
\* call raises exactly when all max_retries attempts failed; and for every
\* max_retries the call ends by returning bytes or by raising.
C6_EndsByReturnOrRaise ==
    /\ dl_pc # "idle" => Len(dl_log) <= max_retries
    /\ dl_pc = "returned" =>
          /\ dl_log # <<>>
          /\ AttemptSucceeds(dl_log[Len(dl_log)])
          /\ \A i \in 1..(Len(dl_log) - 1) : ~AttemptSucceeds(dl_log[i])
          /\ dl_result.size = Received(dl_log[Len(dl_log)].body)
    /\ DownloadFinished =>
          (dl_pc = "raised" <=> (Len(dl_log) = max_retries /\ AllAttemptsFailed))
    /\ DownloadFinished => dl_pc \in {"returned", "raised"}

\* C7: no body of fewer than 1000 bytes is returned; an attempt answered
\* with such a body, or with a status that is not 2xx, is a failed attempt;
\* and when every attempt ends this way the call raises the download error.
C7_SmallOrNon2xxFails ==
    /\ dl_pc = "returned" => dl_result.size >= MinPdfSize
    /\ dl_pc = "returned" => ~SmallOrNon2xx(dl_log[Len(dl_log)])
    /\ (DownloadFinished /\ dl_log # <<>> /\ \A i \in DOMAIN dl_log : SmallOrNon2xx(dl_log[i]))
          => dl_pc = "raised"

\* C22: the bytes returned never exceed max_size (200 MB): a body larger than
\* the ceiling is cut to max_size bytes and returned, and an attempt that
\* received such a body with a 2xx status is never a failed attempt.
C22_ReturnedBytesWithinMaxSize ==
    /\ dl_pc = "returned" =>
          /\ dl_result.size <= max_size
          /\ dl_log[Len(dl_log)].body > max_size => dl_result.size = max_size
    /\ \A i \in DOMAIN dl_log :
          (dl_log[i].exc = "none" /\ ~RaiseForStatus(dl_log[i]) /\ dl_log[i].body > max_size)
              => (i = Len(dl_log) /\ dl_pc = "returned")

\* The attempts that failed, as positions of dl_log.
FailedAttempts == {i \in DOMAIN dl_log : ~AttemptSucceeds(dl_log[i])}

-----------------------------------------------------------------------------
(* Properties of extract_text_from_pdf_enhanced. *)

\* The parser opens the document and its pages give more than 100
\* characters of text.
YieldsUsable(reader, max_pages, min_len, text_limit) ==
    reader.opens /\ Len(Strip(StrategyText(reader, max_pages, min_len, text_limit))) > 100

PrimaryYields == YieldsUsable(ReaderOf(fn_args.pypdf), MaxPages, MinPageTextLen, MaxTextLen)

AlternateYields == YieldsUsable(ReaderOf(fn_args.fitz), MaxPages, MinPageTextLen, MaxTextLen)

PartialYields ==
    /\ fn_args.size > 1000
    /\ YieldsUsable(PrefixReader(fn_args), PartialMaxPages, -1, PartialMaxTextLen)

\* C24: the strategies are tried in the order primary, alternate, partial;
\* the alternate parser only if the primary did not yield usable text, the
\* partial extraction only if neither did; the call stops at the first that
\* yields usable text and returns the text of that one; it never raises; and
\* it returns the "ERROR:" sentinel exactly when no strategy yielded usable
\* text.
C24_StrategiesInOrderThenSentinel ==
    fn_pc # "called" =>
        /\ fn_pc # "raised"
        /\ \E n \in 1..3 : fn_out.tried = SubSeq(<<"PyPDF2", "PyMuPDF", "partial">>, 1, n)
        /\ Len(fn_out.tried) >= 2 => ~PrimaryYields
        /\ Len(fn_out.tried) >= 3 => ~PrimaryYields /\ ~AlternateYields
        /\ fn_pc = "returned" =>
              /\ PrimaryYields => fn_out.from = "PyPDF2" /\ Len(fn_out.tried) = 1
              /\ (~PrimaryYields /\ AlternateYields) =>
                     fn_out.from = "PyMuPDF" /\ Len(fn_out.tried) = 2
              /\ (~PrimaryYields /\ ~AlternateYields /\ PartialYields) =>
                     fn_out.from = "partial"
              /\ fn_out.returned \in {"text", "sentinel"}
              /\ fn_out.returned = "sentinel"
                     <=> ~(PrimaryYields \/ AlternateYields \/ PartialYields)

\* The alternate parser has returned its text after the primary parser had
\* opened the document and found too little, and the partial extraction was
\* never tried.
C24_Witness ==
    /\ fn_pc = "returned"
    /\ fn_out.tried = <<"PyPDF2", "PyMuPDF">>
    /\ fn_out.returned = "text"
    /\ fn_args.pypdf # "unreadable"

\* C25: no strategy goes through more than 200 pages, and the text a
\* successful extraction returns has at most 100,000 characters.
C25_ExtractionIsBounded ==
    fn_pc # "called" =>
        /\ \A i \in DOMAIN fn_out.visited : fn_out.visited[i] <= 200
        /\ (fn_pc = "returned" /\ fn_out.returned = "text") => fn_out.length <= 100000

-----------------------------------------------------------------------------
(* Properties of LLMQueryProcessor.parse_query. *)

\* The call is one whose LLM call failed, whose output is not valid JSON, or
\* whose JSON has no intent field.
ParseNeedsFallback ==
    \/ fn_args.llm.kind = "raise"
    \/ ~fn_args.llm.decodes
    \/ fn_args.llm.type # "object"
    \/ "intent" \notin fn_args.llm.keys

\* keywords are the words of the lower-cased question: none is empty, none
\* holds whitespace, there is one for each start of a word, and together
\* they are the question without its whitespace.
IsWordsOfLowered(keywords, query) ==
    LET lowered == Lower(query)
        positions == [k \in 1..Len(lowered) |-> k]
    IN  /\ \A k \in DOMAIN keywords :
             keywords[k] # <<>> /\ \A i \in DOMAIN keywords[k] : keywords[k][i] \notin Whitespace
        /\ Len(keywords) = Len(SelectSeq(positions,
                                         LAMBDA k : lowered[k] \notin Whitespace
                                                    /\ (k = 1 \/ lowered[k - 1] \in Whitespace)))
        /\ Join(<<>>, keywords) = SelectSeq(lowered, LAMBDA c : c \notin Whitespace)

\* C26: parse_query never raises; when the LLM call fails, or its output is
\* not valid JSON, or the parsed JSON has no intent field, it returns the
\* fallback: intent "other", keywords the lower-cased whitespace-separated
\* words of the question, refined_query the question unchanged.
C26_ParseQueryFallsBack ==
    /\ fn_pc # "raised"
    /\ (fn_pc = "returned" /\ ParseNeedsFallback) =>
          /\ fn_out.returned = "parsed_query"
          /\ fn_out.parsed_query.intent = "other"
          /\ IsWordsOfLowered(fn_out.parsed_query.keywords, fn_args.query)
          /\ fn_out.parsed_query.refined_query = fn_args.query

\* A JSON object without an intent field came back for a question with
\* upper-case letters and runs of whitespace, and the fallback was returned.
C26_Witness ==
    /\ fn_pc = "returned"
    /\ fn_args.llm.type = "object"
    /\ "intent" \notin fn_args.llm.keys
    /\ fn_args.llm.keys # {}
    /\ fn_args.query = SpacedQuestion
    /\ fn_out.parsed_query.keywords = <<<<"i", "s">>, <<"d", "e", "n", "t", "a", "l">>,
                                         <<"c", "l", "a", "i", "m">>,
                                         <<"c", "o", "v", "e", "r", "e", "d", "?">>>>

-----------------------------------------------------------------------------
(* Properties of find_relevant_chunks. *)

\* picks names, for each chunk returned, the place it has in the input:
\* no place twice, scores not increasing, equal scores in the order of the
\* document, and no chunk left out scoring higher than one returned.
IsRanking(picks, returned, chunks, question) ==
    LET score(i) == ChunkScore(chunks[i], question)
    IN  /\ \A r \in DOMAIN picks : returned[r] = chunks[picks[r]]
        /\ \A r, q \in DOMAIN picks : r < q =>
              /\ picks[r] # picks[q]
              /\ score(picks[r]) >= score(picks[q])
              /\ score(picks[r]) = score(picks[q]) => picks[r] < picks[q]
        /\ \A i \in DOMAIN chunks : \A r \in DOMAIN picks :
              (\A q \in DOMAIN picks : picks[q] # i) => score(i) <= score(picks[r])

\* C30: find_relevant_chunks returns min(max_chunks, number of chunks)
\* chunks (max_chunks a count, zero or more), all taken from its input,
\* ordered by non-increasing keyword-overlap score with the question, chunks
\* of equal score in their document order, and leaves out no chunk that
\* scores higher than one it returns.
C30_BestChunksInOrder ==
    (fn_pc # "rank" /\ fn_args.max_chunks >= 0) =>
        LET returned == fn_out.relevant_chunks
        IN  /\ Len(returned) = Min(fn_args.max_chunks, Len(fn_args.chunks))
            /\ \E picks \in [DOMAIN returned -> DOMAIN fn_args.chunks] :
                  IsRanking(picks, returned, fn_args.chunks, fn_args.question)

\* Two of three chunks were returned: a later chunk ahead of an earlier one
\* of lower score, which shares its score with the chunk left out.
C30_Witness ==
    /\ fn_pc = "returned"
    /\ fn_args.max_chunks = 2
    /\ fn_args.chunks = <<GracefulChunk, PremiumChunk, GracefulChunk>>
    /\ fn_out.relevant_chunks = <<PremiumChunk, GracefulChunk>>
    /\ ChunkScore(PremiumChunk, fn_args.question) > ChunkScore(GracefulChunk, fn_args.question)
    /\ ChunkScore(GracefulChunk, fn_args.question) > 0

-----------------------------------------------------------------------------
(* Properties of one request. *)

\* C1: every response that is a body (not an HTTP error) has exactly one
\* answer per question, and answers[i] is the answer produced for
\* questions[i], on every path of webhook_test and of
\* process_document_and_questions.
C1_OneAnswerPerQuestion ==
    response.kind = "body" =>
        /\ Len(response.answers) = Len(questions)
        /\ response.path = "normal" =>
              /\ response.answers = answers
              /\ Len(q_log) = Len(questions)
              /\ \A i \in DOMAIN q_log : q_log[i].question = questions[i]

FallbackFrom(chunk) ==
    <<"Based on the document content <Page ">> \o ToStr(chunk.page_number)
    \o <<">, the relevant information found is: ">>
    \o SubSeq(chunk.content, 1, Min(FallbackContentLen, Len(chunk.content)))
    \o <<".", ".", ".">>

\* No stored chunk scores higher against query_vector than chunk does.
BestScoring(chunk, query_vector) ==
    \E j \in DOMAIN embedded :
        /\ embedded[j].chunk = chunk
        /\ \A k \in DOMAIN embedded :
              ~ScoreGreater(query_vector, embedded[k].embedding, embedded[j].embedding)

\* C3: when the answer-generating LLM call fails for a question with at least
\* one retrieved chunk, the answer is the fallback built from the first,
\* best-scoring, retrieved chunk: its page citation and the first 300
\* characters of its content; a question whose LLM call succeeds in the same
\* request gets the LLM's answer.
C3_FallbackFromBestChunk ==
    endpoint = "hackrx" =>
        \A i \in DOMAIN q_log :
            /\ (q_log[i].failed = "evaluate" /\ q_log[i].retrieved # <<>>) =>
                  /\ answers[i] = FallbackFrom(q_log[i].retrieved[1])
                  /\ BestScoring(q_log[i].retrieved[1], q_log[i].query_vector)
            /\ (q_log[i].failed = "none" /\ q_log[i].llm_ok) =>
                  answers[i] = Strip(q_log[i].llm_text)

\* In one request the LLM failed for a question whose best chunk is longer
\* than 300 characters, and succeeded for another question.
C3_Witness ==
    /\ endpoint = "hackrx"
    /\ rq_pc = "done"
    /\ response.kind = "body"
    /\ \E i, j \in DOMAIN q_log :
        /\ q_log[i].failed = "evaluate"
        /\ q_log[i].retrieved # <<>>
        /\ Len(q_log[i].retrieved[1].content) > FallbackContentLen
        /\ q_log[j].failed = "none"
        /\ q_log[j].llm_ok

\* C4: when extraction yields no usable text the request is not aborted: the
\* response has one answer per question, each saying that the document could
\* not be processed, and no question is sent to the LLM.
C4_ExtractionFailureAnswersEveryQuestion ==
    response.path \in {"extraction_failed", "no_content", "extract_failed"} =>
        /\ response.kind = "body"
        /\ Len(response.answers) = Len(questions)
        /\ \A i \in DOMAIN response.answers :
              response.answers[i][1] = "Unable to process this document: "
        /\ llm_calls = 0

\* Every attempt the request makes to fetch the document fails.
FetchFailsEveryAttempt ==
    IF endpoint = "webhook"
    THEN \A a \in 0..(DefaultMaxRetries - 1) : ~AttemptSucceeds(ServerResponse(a))
    ELSE ServerResponse(0).exc # "none" \/ RaiseForStatus(ServerResponse(0))

\* C5: if the fetch fails on every attempt the request ends with a
\* download-failure error, no question is processed and no answer is returned
\* (a request that ended before any fetch, rejected or without a system, has
\* no answers either).
C5_FetchFailureIsDownloadError ==
    (endpoint \in {"webhook", "hackrx"} /\ FetchFailsEveryAttempt) =>
        /\ answers = <<>>
        /\ q_log = <<>>
        /\ llm_calls = 0
        /\ response.answers = <<>>
        /\ (rq_pc = "done" /\ response.path \notin {"rejected", "construct_failed"}) =>
              /\ response.kind = "http_error"
              /\ response.status = 400
              /\ response.detail[1] \in {"Failed to download PDF after ",
                                         "Failed to download document: "}

\* A request has ended after its fetch failed on every attempt.
C5_Witness ==
    /\ rq_pc = "done"
    /\ response.path = "download_failed"
    /\ FetchFailsEveryAttempt
    /\ endpoint = "webhook" => Len(dl_log) = DefaultMaxRetries

\* C16: when the LLM call for a question succeeds, the answer returned for
\* that question is the model's text with surrounding whitespace trimmed,
\* whatever the question; no later step replaces it.
C16_SuccessfulAnswerIsTrimmedText ==
    \A i \in DOMAIN answers \cap DOMAIN q_log :
        q_log[i].llm_ok => answers[i] = Strip(q_log[i].llm_text)

\* The largest number of questions the endpoint of the request accepts.
MaxQuestionsOf(route) ==
    IF route = "webhook" THEN WebhookMaxQuestions ELSE HackrxMaxQuestions

\* C18: a request with no question, or with more questions than its endpoint
\* allows, is answered by a 400 error, and nothing was done for it: no
\* download attempt, no change of the index, no LLM call.
C18_BadQuestionListsAreRejectedWith400 ==
    (rq_pc = "done" /\ (questions = <<>> \/ Len(questions) > MaxQuestionsOf(endpoint))) =>
        /\ response.kind = "http_error"
        /\ response.status = 400
        /\ dl_log = <<>>
        /\ pdf_size = 0
        /\ vector_db = EmptyDb
        /\ llm_calls = 0
        /\ answers = <<>>

\* The status process_query should answer with when the stage named by the
\* response's path failed.
StatusOfStage(path) ==
    IF path = "download_failed" THEN 400
    ELSE IF path \in {"extract_failed", "no_content"} THEN 422
    ELSE 500

\* C17: when a request to /hackrx/run fails, the status reported identifies
\* the stage that failed: 400 for the document fetch, 422 for text extraction
\* (a document that yields no chunks included), 500 for any other stage
\* (system construction, embedding, indexing), whatever the error's text.
C17_ErrorCategoryIdentifiesStage ==
    (/\ endpoint = "hackrx"
     /\ response.kind = "http_error"
     /\ response.path \in {"download_failed", "extract_failed", "no_content",
                           "embed_failed", "construct_failed"}) =>
        response.status = StatusOfStage(response.path)

-----------------------------------------------------------------------------
(* Properties of PDFProcessor.create_chunks. *)

\* C9: every chunk create_chunks emits has content of at most chunk_size
\* characters, for every page text.
C9_ChunksWithinChunkSize ==
    cc_pc = "returned" =>
        \A i \in DOMAIN cc_out : Len(cc_out[i].content) <= cc_size

PageTextOf(chunk) ==
    (CHOOSE pg \in {cc_pages[i] : i \in DOMAIN cc_pages} :
        pg.page_number = chunk.page_number).content

\* C20: for every chunk create_chunks emits, char_start and char_end are the
\* offsets of the chunk within its page's text: char_start <= char_end,
\* char_end is at most the length of the page text, and the page text from
\* char_start to char_end is the chunk's content.
C20_OffsetsLocateChunk ==
    cc_pc = "returned" =>
        \A i \in DOMAIN cc_out :
            /\ cc_out[i].char_start <= cc_out[i].char_end
            /\ cc_out[i].char_end <= Len(PageTextOf(cc_out[i]))
            /\ Slice(PageTextOf(cc_out[i]), cc_out[i].char_start, cc_out[i].char_end)
                   = cc_out[i].content

\* The 0-based index of the last sentence terminator of window, or -1.
LastTerminator(window) ==
    LET at == {k \in 1..Len(window) : window[k] \in {".", "!", "?"}}
    IN  IF at = {} THEN -1 ELSE (CHOOSE k \in at : \A m \in at : k >= m) - 1

\* s is a suffix of t.
IsSuffix(s, t) == Len(s) <= Len(t) /\ SubSeq(t, Len(t) - Len(s) + 1, Len(t)) = s

\* C21: the overlap text that seeds a new chunk is a suffix of the previous
\* chunk of at most overlap_size characters: the whole previous chunk when it
\* is no longer than overlap_size, otherwise its last overlap_size characters,
\* cut to the part after the last sentence terminator (whitespace around the
\* part set aside) when the terminator lies past the midpoint of the window;
\* and the new chunk starts with no more than overlap_size characters of the
\* previous one.
C21_OverlapIsBoundedSuffix ==
    fn_pc \in {"returned", "seeded"} =>
        LET text == fn_args.text
            overlap_size == fn_args.overlap_size
            overlap_text == fn_out.overlap_text
            window == SubSeq(text, Len(text) - overlap_size + 1, Len(text))
        IN  /\ IsSuffix(overlap_text, text)
            /\ Len(overlap_text) <= overlap_size
            /\ Len(text) <= overlap_size => overlap_text = text
            /\ Len(text) > overlap_size =>
                   IF LastTerminator(window) > overlap_size \div 2
                   THEN overlap_text
                            = Strip(SubSeq(window, LastTerminator(window) + 2, Len(window)))
                   ELSE overlap_text = window
            /\ fn_pc = "seeded" =>
                   \E n \in 0..Min(overlap_size, Len(text)) :
                       fn_out.current_chunk
                           = IF n = 0 THEN fn_args.para
                             ELSE SubSeq(text, Len(text) - n + 1, Len(text))
                                      \o <<"\n", "\n">> \o fn_args.para

\* The pages of the document that carry a chunk's page number.
PagesOf(chunk) == {k \in DOMAIN cc_pages : cc_pages[k].page_number = chunk.page_number}

\* The chunks without their identifiers.
Unnumbered(chunks) ==
    [i \in DOMAIN chunks |-> [content |-> chunks[i].content,
                              page_number |-> chunks[i].page_number,
                              char_start |-> chunks[i].char_start,
                              char_end |-> chunks[i].char_end]]

\* C27: every chunk create_chunks emits carries the number of exactly one
\* page of the document and holds text of that page only: each of its
\* paragraphs is found in the page's text, and the chunks of a page are the
\* chunks the page yields when it is the whole document, so nothing of the
\* page before goes into them; the identifiers are chunk_0, chunk_1, ... in
\* the order of emission across the pages, hence unique.
C27_ChunksOfOnePageNumberedInOrder ==
    cc_pc # "called" =>
        /\ \A i \in DOMAIN cc_out :
              /\ cc_out[i].chunk_id = i - 1
              /\ Cardinality(PagesOf(cc_out[i])) = 1
              /\ \A k \in PagesOf(cc_out[i]) :
                    LET parts == SplitOn(cc_out[i].content, 1, <<"\n", "\n">>)
                    IN  \A n \in DOMAIN parts : Contains(cc_pages[k].content, Strip(parts[n]))
        /\ \A i, j \in DOMAIN cc_out : i # j => cc_out[i].chunk_id # cc_out[j].chunk_id
        /\ \A k \in DOMAIN cc_pages :
              Unnumbered(SelectSeq(cc_out,
                                   LAMBDA c : c.page_number = cc_pages[k].page_number))
                  = Unnumbered(create_chunks(<<cc_pages[k]>>, cc_size, cc_overlap))

\* A document of two pages has come back as two chunks or more of its first
\* page followed by chunks of its second page, with an overlap between
\* chunks.
C27_Witness ==
    /\ cc_pc = "returned"
    /\ Len(cc_pages) = 2
    /\ cc_overlap > 0
    /\ \E i \in DOMAIN cc_out :
          /\ i >= 3
          /\ cc_out[i].page_number = cc_pages[2].page_number
          /\ \A j \in 1..(i - 1) : cc_out[j].page_number = cc_pages[1].page_number
    /\ cc_pages[1].content # cc_pages[2].content

-----------------------------------------------------------------------------
(* Properties of the FAISSVectorDB object. *)

\* C12: a search on an index that holds no vector (never initialized,
\* initialized and empty, or cleared) returns the empty list, for every query
\* vector and every top_k, and does not raise.
C12_SearchOnEmptyIndexIsEmpty ==
    (sv_last.op = "search" /\ sv_last.stored = 0) =>
        ~sv_last.raised /\ sv_last.results = <<>>

\* A search was made on an initialized index that holds no vector.
C12_Witness ==
    /\ sv_last.op = "search"
    /\ sv_last.stored = 0
    /\ sv_faiss.initialized
    /\ sv_faiss.dimension = EmbeddingDim + 1
    /\ ~sv_last.raised

-----------------------------------------------------------------------------
(* Properties of a VectorDBManager on FAISS. *)

\* As many metadata entries as vectors, the i-th entry being that of the
\* chunk whose embedding is the i-th vector.
MetadataAligned ==
    /\ Len(sv_faiss.metadata) = Len(sv_faiss.vectors)
    /\ \A i \in DOMAIN sv_faiss.metadata :
          /\ i \in DOMAIN sv_faiss.vectors
          /\ ChunkVectors[sv_faiss.metadata[i].chunk_id + 1] = sv_faiss.vectors[i]

\* A search that returned gave the metadata of stored vectors, best match
\* first, as many as asked for and stored, and left out no vector that
\* matches better than one it gave.
SearchGivesMatches ==
    (sv_last.op = "search_similar_chunks" /\ ~sv_last.raised /\ sv_last.stored > 0) =>
        LET results == sv_last.results
            vector_of(meta) == ChunkVectors[meta.chunk_id + 1]
            given(i) == \E a \in DOMAIN results : results[a] = sv_faiss.metadata[i]
        IN  /\ Len(results) = Min(sv_last.top_k, sv_last.stored)
            /\ \A a \in DOMAIN results :
                  \E i \in DOMAIN sv_faiss.vectors :
                      /\ sv_faiss.metadata[i] = results[a]
                      /\ sv_faiss.vectors[i] = vector_of(results[a])
            /\ \A a \in DOMAIN results : \A b \in DOMAIN results :
                  a < b => ~ScoreGreater(sv_last.query_vector, vector_of(results[b]),
                                         vector_of(results[a]))
            /\ \A i \in DOMAIN sv_faiss.vectors : \A a \in DOMAIN results :
                  ~given(i) => ~ScoreGreater(sv_last.query_vector, sv_faiss.vectors[i],
                                             vector_of(results[a]))

\* An add_chunks that raised has left the index and the metadata as they were.
FailedAddChangesNothing ==
    (sv_last'.op = "add_chunks" /\ sv_last'.raised) => sv_faiss' = sv_faiss

\* C28: after any sequence of initialize, add_chunks, search and clear on a
\* VectorDBManager backed by FAISS, there are as many metadata entries as
\* stored vectors and metadata[i] is that of the i-th stored vector; an
\* add_chunks that fails leaves both unchanged; and every search result
\* carries the metadata of a vector that matched.
C28_MetadataFollowsVectors ==
    /\ [](MetadataAligned /\ SearchGivesMatches)
    /\ [][FailedAddChangesNothing]_vars

\* An add_chunks with a chunk of another dimension than the index has failed
\* on an index that holds two vectors.
C28_Witness ==
    /\ sv_last.op = "add_chunks"
    /\ sv_last.raised
    /\ sv_faiss.initialized
    /\ Len(sv_faiss.vectors) = 2
    /\ sv_faiss.vectors[1] # sv_faiss.vectors[2]

\* C29: whatever the constructor arguments of VectorDBManager, the
\* use_pinecone flag of the manager built, and with it the backend type
\* get_system_status reports, is true exactly when the backend in use is the
\* Pinecone backend.
C29_FlagTellsBackend ==
    /\ fn_pc \in {"built", "reported"} =>
          (fn_out.use_pinecone <=> fn_out.db = "Pinecone")
    /\ fn_pc = "reported" =>
          (fn_out.type = "Pinecone" <=> fn_out.db = "Pinecone")

-----------------------------------------------------------------------------
(* Properties of the service. *)

\* C13: the index is scoped to one request, with either backend: when a
\* request finishes, by returning its answers or by raising, the index holds
\* no entry of that request's document, and during a request's question phase
\* the index holds exactly the chunks of that request's document.
C13_IndexScopedToRequest ==
    /\ \A i \in DOMAIN sv_trace :
           sv_trace[i].step = "finish" =>
               sv_trace[i].chunks \cap ChunkSet(sv_req[sv_trace[i].req].doc) = {}
    /\ \A r \in DOMAIN sv_req :
           sv_req[r].pc = "questions" => IndexContents = ChunkSet(sv_req[r].doc)

\* C14: with two requests in flight on the shared system, every chunk a
\* search returns during a request's question phase belongs to that request's
\* document, and the index does not change while a request is in its
\* question phase.
C14_RequestsDoNotShareIndex ==
    /\ [](\A i \in DOMAIN sv_trace :
             sv_trace[i].step = "retrieve" =>
                 sv_trace[i].chunks \subseteq ChunkSet(sv_req[sv_trace[i].req].doc))
    /\ [][\A r \in DOMAIN sv_req :
             (sv_req[r].pc = "questions" /\ sv_req'[r].pc = "questions") =>
                 IndexContents' = IndexContents]_vars

\* The remote backend is configured but cannot be used.
PineconeUnusable ==
    sv_env.use_pinecone /\ (~sv_env.library \/ sv_env.remote # "ok")

\* C15: when Pinecone is configured but the library is missing, the API key
\* is missing or invalid, or the service cannot be reached, the system uses
\* FAISS and no request fails because of the index.
C15_FallsBackToFaiss ==
    PineconeUnusable =>
        /\ sv_system \in {"none", "faiss"}
        /\ \A r \in DOMAIN sv_req : sv_req[r].failed # "index"

\* The place of a step in the order of one request: the five steps of
\* pre-processing, then three steps for each question, then the clear.
StepRank(e) ==
    IF e.step = "fetch" THEN 1
    ELSE IF e.step = "extract" THEN 2
    ELSE IF e.step = "chunk" THEN 3
    ELSE IF e.step = "embed" THEN 4
    ELSE IF e.step = "index" THEN 5
    ELSE IF e.step = "parse" THEN 3 * e.q + 3
    ELSE IF e.step = "retrieve" THEN 3 * e.q + 4
    ELSE IF e.step = "synthesize" THEN 3 * e.q + 5
    ELSE IF e.step = "clear" THEN 3 * MostAsked + 6
    ELSE 3 * MostAsked + 7

\* The steps of request r in sv_trace, in order.
StepsOf(r) == SelectSeq(sv_trace, LAMBDA e : e.req = r)

\* C19: within one request the steps come in order: fetch, extract, chunk,
\* embed and index before the first question; the questions one at a time in
\* input order, each through parse, retrieve, synthesize (or as far as the
\* question gets when its search raises); the index cleared only after the
\* last question was answered.
C19_StepsInOrder ==
    \A r \in DOMAIN sv_req :
        LET steps == StepsOf(r)
        IN  /\ \A i, j \in DOMAIN steps : i < j => StepRank(steps[i]) < StepRank(steps[j])
            /\ \A i \in DOMAIN steps :
                   /\ steps[i].step = "parse" =>
                          /\ i > 5
                          /\ {steps[k].step : k \in 1..5}
                                 = {"fetch", "extract", "chunk", "embed", "index"}
                          /\ steps[i].q = 1 \/ \E k \in 1..(i - 1) :
                                 steps[k].step = "parse" /\ steps[k].q = steps[i].q - 1
                   /\ steps[i].step = "clear" =>
                          \A q \in 1..sv_req[r].asked : \E k \in 1..(i - 1) :
                              steps[k].step = "parse" /\ steps[k].q = q

\* A request with two questions on a three-chunk document has returned its
\* answers after another request had finished.
C19_Witness ==
    \E r \in DOMAIN sv_req :
        /\ sv_req[r].outcome = 200
        /\ sv_req[r].asked = MostAsked
        /\ sv_req[r].doc = "policy"
        /\ Len(StepsOf(r)) = 5 + 3 * MostAsked + 2
        /\ sv_trace[1].req # r

=============================================================================
